---------------------------- MODULE Spec2Model ----------------------------
(***************************************************************************)
(* A model of the CognitoFlow policy engine (src/src/policy_engine.py):    *)
(* the policy store, the audit log file, the clock, and the operations     *)
(* enforce_policy and create_policy_from_template with the condition       *)
(* evaluator and the action executor they call.                            *)
(*                                                                         *)
(* Python values are modelled as tagged records:                           *)
(*   [t |-> "str",  s |-> <<characters>>]     a str                        *)
(*   [t |-> "int",  n |-> 15000]              an int                       *)
(*   [t |-> "list", l |-> <<values>>]         a list                       *)
(* A str is a tuple of one-character strings, so that str(), lower(), the  *)
(* substring test and the regular expressions work on characters.  A dict  *)
(* of data is the tuple of its items [k |-> key, v |-> value] in insertion *)
(* order (the order str() and items() follow).                             *)
(***************************************************************************)
EXTENDS Integers, Sequences, FiniteSets, TLC

VARIABLES
    policies,       \* self.policies: policy_id -> Policy
    audit_file,     \* the file at self.audit_log_path: [exists, events, torn]
    disk,           \* what the file system does with a write of the file
    threads,        \* the enforce_policy calls that run concurrently
    clock,          \* the reading datetime.utcnow() gives, in ticks
    ret,            \* what the last call of the engine's API returned or raised
    probe,          \* what the last direct call of _enforce_rule returned
    sdlc            \* the registries of CognitoFlowAISDLC: projects, data_profiles,
                    \* experiments, deployments

vars == <<policies, audit_file, disk, threads, clock, ret, probe, sdlc>>

(***************************************************************************)
(* Characters and text                                                     *)
(***************************************************************************)
LowerLetters ==
    {"a", "b", "c", "d", "e", "f", "g", "h", "i", "j", "k", "l", "m", "n", "o", "p", "q", "r", "s", "t", "u", "v", "w", "x", "y", "z"}

UpperToLower ==
    [A |-> "a", B |-> "b", C |-> "c", D |-> "d", E |-> "e", F |-> "f", G |-> "g", H |-> "h", I |-> "i", J |-> "j", K |-> "k", L |-> "l", M |-> "m", N |-> "n", O |-> "o", P |-> "p", Q |-> "q", R |-> "r", S |-> "s", T |-> "t", U |-> "u", V |-> "v", W |-> "w", X |-> "x", Y |-> "y", Z |-> "z"]

UpperLetters ==
    DOMAIN UpperToLower

Letters ==
    LowerLetters \cup UpperLetters

Digits ==
    {"0", "1", "2", "3", "4", "5", "6", "7", "8", "9"}

\* \s of the re module, on the characters used here
SpaceChars ==
    {" "}

DigitChar ==
    <<"0", "1", "2", "3", "4", "5", "6", "7", "8", "9">>

\* str.lower() of one character
LowerChar(c) ==
    IF c \in UpperLetters THEN UpperToLower[c] ELSE c

\* str.lower()
Lower(text) ==
    [i \in 1..Len(text) |-> LowerChar(text[i])]

\* the `in` operator of two strs: needle is a substring of text
Contains(text, needle) ==
    \E i \in 1..(Len(text) - Len(needle) + 1) :
        \A j \in 1..Len(needle) : text[i + j - 1] = needle[j]

RECURSIVE IntToChars(_)
\* str() of a non-negative int
IntToChars(n) ==
    IF n < 10 THEN <<DigitChar[n + 1]>>
    ELSE IntToChars(n \div 10) \o <<DigitChar[(n % 10) + 1]>>

RECURSIVE JoinComma(_)
\* ", ".join(parts)
JoinComma(parts) ==
    IF Len(parts) = 0 THEN << >>
    ELSE IF Len(parts) = 1 THEN parts[1]
    ELSE parts[1] \o <<",", " ">> \o JoinComma(Tail(parts))

RECURSIVE Repr(_)
\* repr() of a value, as str() of a dict or a list shows it
Repr(v) ==
    CASE v.t = "str" -> <<"'">> \o v.s \o <<"'">>
      [] v.t = "int" -> IntToChars(v.n)
      [] v.t = "list" ->
            <<"[">> \o JoinComma([i \in 1..Len(v.l) |-> Repr(v.l[i])]) \o <<"]">>

\* str(data) of a dict
StrDict(data) ==
    <<"{">>
    \o JoinComma([i \in 1..Len(data) |->
                    <<"'">> \o data[i].k \o <<"'", ":", " ">> \o Repr(data[i].v)])
    \o <<"}">>

\* Python values
PyStr(s) ==
    [t |-> "str", s |-> s]

PyInt(n) ==
    [t |-> "int", n |-> n]

PyList(l) ==
    [t |-> "list", l |-> l]

\* key in data
HasKey(data, key) ==
    \E i \in 1..Len(data) : data[i].k = key

\* data[key], for a key in data
GetKey(data, key) ==
    data[CHOOSE i \in 1..Len(data) : data[i].k = key].v

\* bool(value): a value that `not` does not negate to True
Truthy(v) ==
    CASE v.t = "str" -> Len(v.s) > 0
      [] v.t = "int" -> v.n # 0
      [] v.t = "list" -> Len(v.l) > 0

\* isinstance(value, (int, float))
IsNumber(v) ==
    v.t = "int"

(***************************************************************************)
(* Bounds of the model                                                     *)
(***************************************************************************)
\* the largest reading of the clock
MaxClock ==
    1

\* the largest number of events the audit file grows to
MaxLog ==
    2

\* readings of the clock within one second: isoformat() tells them apart,
\* strftime('%Y%m%d_%H%M%S') does not
TicksPerSecond ==
    2

(***************************************************************************)
(* String literals: keys and values of records, words the engine looks for *)
(***************************************************************************)
K_customer_email ==
    <<"c","u","s","t","o","m","e","r","_","e","m","a","i","l">>
K_consent_timestamp ==
    <<"c","o","n","s","e","n","t","_","t","i","m","e","s","t","a","m","p">>
K_cash_amount ==
    <<"c","a","s","h","_","a","m","o","u","n","t">>
K_wire_amount ==
    <<"w","i","r","e","_","a","m","o","u","n","t">>
K_Total_Amount ==
    <<"T","o","t","a","l","_","A","m","o","u","n","t">>
K_age ==
    <<"a","g","e">>
K_name ==
    <<"n","a","m","e">>
K_note ==
    <<"n","o","t","e">>
S_email ==
    <<"a","@","b",".","c","o">>
S_phone ==
    <<"5","5","5","-","1","2","3","-","4","5","6","7">>
S_ssn ==
    <<"1","2","3","-","4","5","-","6","7","8","9">>
S_card ==
    <<"4","5","3","2","-","1","2","3","4","-","5","6","7","8","-","9","0","1","2">>
S_plain ==
    <<"h","e","l","l","o">>
S_empty ==
    << >>
S_time ==
    <<"2","0","2","4">>
S_abc ==
    <<"a","b","c">>
W_amount ==
    <<"a","m","o","u","n","t">>
phi_indicators ==
    << <<"m","e","d","i","c","a","l","_","r","e","c","o","r","d">>,
       <<"p","a","t","i","e","n","t","_","i","d">>,
       <<"d","i","a","g","n","o","s","i","s">>,
       <<"t","r","e","a","t","m","e","n","t">>,
       <<"p","r","e","s","c","r","i","p","t","i","o","n">>,
       <<"d","o","c","t","o","r">>,
       <<"h","o","s","p","i","t","a","l">>,
       <<"i","n","s","u","r","a","n","c","e">> >>

(***************************************************************************)
(* Regular expressions.  A pattern is a tuple of items [set, lo, hi, open]:*)
(* between lo and hi characters of set, any number >= lo when open.  The   *)
(* four patterns of the engine all stand between two \b.                   *)
(***************************************************************************)
Exactly(set, n) ==
    [set |-> set, lo |-> n, hi |-> n, open |-> FALSE]

Optional(set) ==
    [set |-> set, lo |-> 0, hi |-> 1, open |-> FALSE]

AtLeast(set, n) ==
    [set |-> set, lo |-> n, hi |-> n, open |-> TRUE]

\* position i of text holds a \w character
WordAt(text, i) ==
    i \in 1..Len(text) /\ text[i] \in (Letters \cup Digits \cup {"_"})

\* \b matches between positions i - 1 and i of text
Boundary(text, i) ==
    WordAt(text, i - 1) # WordAt(text, i)

RECURSIVE RunLen(_, _, _)
\* the number of consecutive characters of set from position i on
RunLen(text, i, set) ==
    IF i <= Len(text) /\ text[i] \in set THEN 1 + RunLen(text, i + 1, set) ELSE 0

RECURSIVE Ends(_, _, _, _)
\* the positions after a match of the items j.. of pat that starts at i
Ends(text, i, pat, j) ==
    IF j > Len(pat) THEN {i}
    ELSE LET item == pat[j]
             run == RunLen(text, i, item.set)
             top == IF item.open \/ run < item.hi THEN run ELSE item.hi
         IN  UNION {Ends(text, i + n, pat, j + 1) : n \in item.lo..top}

\* re.search(r'\b' + pat + r'\b', text) finds a match
Search(text, pat) ==
    \E i \in 1..(Len(text) + 1) :
        /\ Boundary(text, i)
        /\ \E e \in Ends(text, i, pat, 1) : Boundary(text, e)

\* [A-Za-z0-9._%+-]+@[A-Za-z0-9.-]+\.[A-Z|a-z]{2,}
EmailPattern ==
    << AtLeast(Letters \cup Digits \cup {".", "_", "%", "+", "-"}, 1),
       Exactly({"@"}, 1),
       AtLeast(Letters \cup Digits \cup {".", "-"}, 1),
       Exactly({"."}, 1),
       AtLeast(Letters \cup {"|"}, 2) >>

\* \d{3}-\d{3}-\d{4}
PhonePatternDashed ==
    << Exactly(Digits, 3), Exactly({"-"}, 1), Exactly(Digits, 3),
       Exactly({"-"}, 1), Exactly(Digits, 4) >>

\* \(\d{3}\)\s*\d{3}-\d{4}
PhonePatternParen ==
    << Exactly({"("}, 1), Exactly(Digits, 3), Exactly({")"}, 1),
       AtLeast(SpaceChars, 0), Exactly(Digits, 3), Exactly({"-"}, 1),
       Exactly(Digits, 4) >>

\* \d{3}-\d{2}-\d{4}
SsnPattern ==
    << Exactly(Digits, 3), Exactly({"-"}, 1), Exactly(Digits, 2),
       Exactly({"-"}, 1), Exactly(Digits, 4) >>

\* \d{4}[\s-]?\d{4}[\s-]?\d{4}[\s-]?\d{4}
CardPattern ==
    << Exactly(Digits, 4), Optional(SpaceChars \cup {"-"}),
       Exactly(Digits, 4), Optional(SpaceChars \cup {"-"}),
       Exactly(Digits, 4), Optional(SpaceChars \cup {"-"}),
       Exactly(Digits, 4) >>

RECURSIVE FirstEnd(_, _, _, _)
RECURSIVE LongestFirst(_, _, _, _, _)
\* the position after the match the re module finds for the items j.. of pat
\* and the closing \b from position i, 0 when there is none: each item takes
\* as many characters as it can and gives back one at a time
FirstEnd(text, i, pat, j) ==
    IF j > Len(pat) THEN (IF Boundary(text, i) THEN i ELSE 0)
    ELSE LET run == RunLen(text, i, pat[j].set)
         IN  LongestFirst(text, i, pat, j,
                          IF pat[j].open \/ run < pat[j].hi THEN run ELSE pat[j].hi)

\* FirstEnd with n characters for item j, or with fewer when that fails
LongestFirst(text, i, pat, j, n) ==
    IF n < pat[j].lo THEN 0
    ELSE IF FirstEnd(text, i + n, pat, j + 1) # 0
    THEN FirstEnd(text, i + n, pat, j + 1)
    ELSE LongestFirst(text, i, pat, j, n - 1)

RECURSIVE MatchEnd(_, _, _, _)
\* the position after the match of \bpat\b at position i for the first of the
\* alternatives a.. of pats that matches there, 0 when none does
MatchEnd(text, i, pats, a) ==
    IF a > Len(pats) \/ ~Boundary(text, i) THEN 0
    ELSE IF FirstEnd(text, i, pats[a], 1) # 0 THEN FirstEnd(text, i, pats[a], 1)
    ELSE MatchEnd(text, i, pats, a + 1)

RECURSIVE Sub(_, _, _, _)
\* re.sub(pattern, token, text) from position i on, for the pattern that is
\* the alternatives pats: the matches from left to right, none overlapping
Sub(text, i, pats, token) ==
    IF i > Len(text) THEN << >>
    ELSE IF MatchEnd(text, i, pats, 1) # 0
    THEN token \o Sub(text, MatchEnd(text, i, pats, 1), pats, token)
    ELSE <<text[i]>> \o Sub(text, i + 1, pats, token)

\* the substitutions with a card number masked by digits, 555-000-0000, in
\* place of the token [CARD]
AnonymizeText_card_masked_by_digits(value) ==
    LET emails == Sub(value, 1, <<EmailPattern>>, <<"[","E","M","A","I","L","]">>)
        phones == Sub(emails, 1, <<PhonePatternDashed, PhonePatternParen>>,
                      <<"[","P","H","O","N","E","]">>)
        ssns == Sub(phones, 1, <<SsnPattern>>, <<"[","S","S","N","]">>)
    IN  Sub(ssns, 1, <<CardPattern>>,
            <<"5","5","5","-","0","0","0","-","0","0","0","0">>)

\* the four substitutions of _anonymize_data on a str, in their order
AnonymizeText(value) ==
    LET emails == Sub(value, 1, <<EmailPattern>>, <<"[","E","M","A","I","L","]">>)
        phones == Sub(emails, 1, <<PhonePatternDashed, PhonePatternParen>>,
                      <<"[","P","H","O","N","E","]">>)
        ssns == Sub(phones, 1, <<SsnPattern>>, <<"[","S","S","N","]">>)
    IN  Sub(ssns, 1, <<CardPattern>>, <<"[","C","A","R","D","]">>)

(***************************************************************************)
(* The condition evaluator.  A predicate returns [raised, value, error]:   *)
(* its boolean, or the exception it raises.                                *)
(***************************************************************************)
Returns(b) ==
    [raised |-> FALSE, value |-> b, error |-> ""]

Raises(e) ==
    [raised |-> TRUE, value |-> FALSE, error |-> e]

\* conditions.get(key, default)
CondGet(conditions, key, default) ==
    IF key \in DOMAIN conditions THEN conditions[key] ELSE default

\* _detect_pii with a phone pattern that lost its first alternative
DetectPiiText_paren_phone_only(text) ==
    LET found == [email |-> Search(text, EmailPattern),
                  phone |-> Search(text, PhonePatternParen),
                  ssn |-> Search(text, SsnPattern),
                  credit_card |-> Search(text, CardPattern)]
        IsFound(kind) == found[kind]
    IN  SelectSeq(<<"email", "phone", "ssn", "credit_card">>, IsFound)

\* _detect_pii on the text str(data)
DetectPiiText(text) ==
    LET found == [email |-> Search(text, EmailPattern),
                  phone |-> Search(text, PhonePatternDashed)
                              \/ Search(text, PhonePatternParen),
                  ssn |-> Search(text, SsnPattern),
                  credit_card |-> Search(text, CardPattern)]
        IsFound(kind) == found[kind]
    IN  SelectSeq(<<"email", "phone", "ssn", "credit_card">>, IsFound)

\* _detect_phi on the text str(data)
DetectPhiText(text) ==
    \E n \in 1..Len(phi_indicators) : Contains(Lower(text), phi_indicators[n])

(***************************************************************************)
(* The records of the model                                                *)
(***************************************************************************)
Item(key, value) ==
    [k |-> key, v |-> value]

\* the records enforce_policy is called with
EngineRecords ==
    { << Item(K_customer_email, PyStr(S_email)),
         Item(K_consent_timestamp, PyStr(S_time)),
         Item(K_wire_amount, PyInt(15000)),
         Item(<<"p","a","t","i","e","n","t","_","i","d">>, PyStr(<<"P","1">>)),
         Item(K_age, PyList(<<PyInt(1), PyInt(20)>>)) >>,
      << Item(K_wire_amount, PyStr(S_abc)), Item(K_name, PyStr(S_plain)) >> }

\* no item, or the item of key with one of the values
Maybe(key, values) ==
    {<< >>} \cup {<<Item(key, v)>> : v \in values}

\* the record of test_pii_detection: one pattern of each kind
PiiTestRecord ==
    << Item(K_customer_email, PyStr(S_email)), Item(<<"p","h","o","n","e">>, PyStr(S_phone)),
       Item(<<"s","s","n">>, PyStr(S_ssn)),
       Item(<<"c","r","e","d","i","t","_","c","a","r","d">>, PyStr(S_card)) >>

\* records of text: an e-mail address, a note, the consent timestamp
TextRecords ==
    {PiiTestRecord} \cup
    {a \o b \o c :
        a \in Maybe(K_customer_email, {PyStr(S_email)}),
        b \in Maybe(K_note, {PyStr(S_phone), PyStr(S_ssn), PyStr(S_card),
                             PyStr(<<"D","i","a","g","n","o","s","i","s"," ",
                                     "f","l","u">>),
                             PyStr(S_plain)}),
        c \in Maybe(K_consent_timestamp, {PyStr(S_empty), PyStr(S_time)})}

\* the parts the texts to anonymize are made of: nothing, one text of each
\* kind of PII, a phone number in parentheses, a word, a number
AnonPieces ==
    {S_empty, S_email, S_phone, S_ssn, S_card, S_plain, <<"1","2">>,
     <<"(","5","5","5",")"," ","1","2","3","-","4","5","6","7">>}

\* the str values _anonymize_data is called with: two parts and a separator
AnonTexts ==
    {a \o sep \o b : a \in AnonPieces, b \in AnonPieces,
                     sep \in {<< >>, <<" ">>, <<"-">>, <<"|">>, <<".">>}}

\* the records _anonymize_data is called with: one text, or a text among a
\* word, an email address and a number
AnonRecords ==
    {<<Item(K_note, PyStr(text))>> : text \in AnonTexts}
    \cup {<<Item(K_name, PyStr(S_plain)), Item(K_note, PyStr(text)),
             Item(K_customer_email, PyStr(S_email)), Item(K_age, PyInt(40))>> :
              text \in {S_plain, S_phone, S_card \o <<" ">> \o S_ssn}}

\* records of amounts: numbers below, at and above the thresholds, and a str
AmountRecords ==
    {a \o b \o c :
        a \in Maybe(K_cash_amount, {PyInt(500), PyInt(5000), PyInt(10000),
                                    PyStr(S_abc)}),
        b \in Maybe(K_wire_amount, {PyInt(500), PyInt(10000), PyInt(15000),
                                    PyStr(S_abc)}),
        c \in Maybe(K_Total_Amount, {PyInt(5000), PyInt(10000)})}

\* records of a protected attribute: lists of equal and of spread values, a
\* list of one value, a list that holds a str, a number
AttributeRecords ==
    {a \o b :
        a \in Maybe(K_age, {PyList(<<PyInt(1), PyInt(1)>>),
                            PyList(<<PyInt(1), PyInt(20)>>),
                            PyList(<<PyInt(7)>>),
                            PyList(<<PyInt(1), PyStr(S_abc)>>),
                            PyInt(40)}),
        b \in Maybe(K_name, {PyStr(S_plain)})}

\* the records _enforce_rule is called with
RuleRecords ==
    TextRecords \cup AmountRecords \cup AttributeRecords

\* every record of the model
AllRecords ==
    EngineRecords \cup RuleRecords

PiiOfRecord ==
    [data \in AllRecords |-> DetectPiiText(StrDict(data))]

PhiOfRecord ==
    [data \in AllRecords |-> DetectPhiText(StrDict(data))]

\* _detect_pii: the kinds of PII found in str(data), in the order of the checks
\* (computed once for each record of the model)
_detect_pii(data) ==
    PiiOfRecord[data]

\* _detect_phi: str(data).lower() holds one of the indicator words
\* (computed once for each record of the model)
_detect_phi(data) ==
    PhiOfRecord[data]

RECURSIVE SumOf(_)
\* sum(values) of a list of ints
SumOf(values) ==
    IF Len(values) = 0 THEN 0 ELSE values[1].n + SumOf(Tail(values))

\* variance > bias_threshold for a list of ints and a threshold num/den, where
\* variance = sum((x - mean) ** 2) / len and mean = sum / len, without rounding
VarianceExceeds(values, threshold) ==
    LET n == Len(values)
        s == SumOf(values)
        sq == SumOf([i \in 1..n |-> PyInt(values[i].n * values[i].n)])
    IN  threshold.den * (n * sq - s * s) > threshold.num * n * n

RECURSIVE BiasFrom(_, _, _, _)
\* the loop of _detect_bias from the i-th protected attribute on
BiasFrom(data, attrs, threshold, i) ==
    IF i > Len(attrs) THEN Returns(FALSE)
    ELSE IF /\ HasKey(data, attrs[i])
            /\ GetKey(data, attrs[i]).t = "list"
            /\ Len(GetKey(data, attrs[i]).l) > 1
         THEN LET values == GetKey(data, attrs[i]).l
              IN  IF \E j \in 1..Len(values) : ~IsNumber(values[j])
                  THEN Raises("TypeError: unsupported operand type(s) for +")
                  ELSE IF VarianceExceeds(values, threshold) THEN Returns(TRUE)
                  ELSE BiasFrom(data, attrs, threshold, i + 1)
         ELSE BiasFrom(data, attrs, threshold, i + 1)

\* the default of conditions.get('bias_threshold', 0.1)
DefaultBiasThreshold ==
    [num |-> 1, den |-> 10]

_detect_bias(data, conditions) ==
    BiasFrom(data, CondGet(conditions, "protected_attributes", << >>),
             CondGet(conditions, "bias_threshold", DefaultBiasThreshold), 1)

_validate_consent(data, conditions) ==
    IF CondGet(conditions, "consent_required", FALSE)
    THEN IF ~(HasKey(data, K_consent_timestamp)
              /\ Truthy(GetKey(data, K_consent_timestamp)))
         THEN Returns(FALSE)
         ELSE Returns(TRUE)
    ELSE Returns(TRUE)

\* value >= threshold of a data value and an int: a bool, or the TypeError
\* that comparing a str or a list with an int raises
AtLeastThreshold(v, threshold) ==
    IF IsNumber(v) THEN Returns(v.n >= threshold)
    ELSE Raises("TypeError: '>=' not supported")

\* the loop of _check_financial_thresholds with > in the place of >=
AmountFieldMeets_strict(data, thresholds) ==
    \E i \in 1..Len(data) :
        /\ Contains(Lower(data[i].k), W_amount)
        /\ IsNumber(data[i].v)
        /\ \/ "wire" \in DOMAIN thresholds /\ data[i].v.n > thresholds.wire
           \/ "cash" \in DOMAIN thresholds /\ data[i].v.n > thresholds.cash

\* the loop of _check_financial_thresholds over data.items()
AmountFieldMeets(data, thresholds) ==
    \E i \in 1..Len(data) :
        /\ Contains(Lower(data[i].k), W_amount)
        /\ IsNumber(data[i].v)
        /\ \/ "wire" \in DOMAIN thresholds /\ data[i].v.n >= thresholds.wire
           \/ "cash" \in DOMAIN thresholds /\ data[i].v.n >= thresholds.cash

_check_financial_thresholds(data, conditions) ==
    LET thresholds == CondGet(conditions, "threshold_amounts", << >>)
        cash == IF HasKey(data, K_cash_amount) /\ "cash" \in DOMAIN thresholds
                THEN AtLeastThreshold(GetKey(data, K_cash_amount), thresholds.cash)
                ELSE Returns(FALSE)
        wire == IF HasKey(data, K_wire_amount) /\ "wire" \in DOMAIN thresholds
                THEN AtLeastThreshold(GetKey(data, K_wire_amount), thresholds.wire)
                ELSE Returns(FALSE)
    IN  IF cash.raised \/ cash.value THEN cash
        ELSE IF wire.raised \/ wire.value THEN wire
        ELSE Returns(AmountFieldMeets(data, thresholds))

\* _evaluate_conditions with the financial check moved to the front
_evaluate_conditions_thresholds_first(conditions, data, user_context) ==
    IF "threshold_amounts" \in DOMAIN conditions
    THEN _check_financial_thresholds(data, conditions)
    ELSE IF "data_types" \in DOMAIN conditions
    THEN LET detected_types == _detect_pii(data)
         IN  Returns(\E i \in 1..Len(conditions.data_types) :
                        \E j \in 1..Len(detected_types) :
                            conditions.data_types[i] = detected_types[j])
    ELSE IF "protected_attributes" \in DOMAIN conditions
    THEN _detect_bias(data, conditions)
    ELSE IF "consent_required" \in DOMAIN conditions
    THEN _validate_consent(data, conditions)
    ELSE Returns(TRUE)

\* user_context is accepted and never read
_evaluate_conditions(conditions, data, user_context) ==
    IF "data_types" \in DOMAIN conditions
    THEN LET detected_types == _detect_pii(data)
         IN  Returns(\E i \in 1..Len(conditions.data_types) :
                        \E j \in 1..Len(detected_types) :
                            conditions.data_types[i] = detected_types[j])
    ELSE IF "protected_attributes" \in DOMAIN conditions
    THEN _detect_bias(data, conditions)
    ELSE IF "consent_required" \in DOMAIN conditions
    THEN _validate_consent(data, conditions)
    ELSE IF "threshold_amounts" \in DOMAIN conditions
    THEN _check_financial_thresholds(data, conditions)
    ELSE IF \E i \in 1..Len(CondGet(conditions, "data_types", << >>)) :
                CondGet(conditions, "data_types", << >>)[i] = "medical_record"
    THEN Returns(_detect_phi(data))
    ELSE Returns(TRUE)

(***************************************************************************)
(* The action executor.  An action returns [raised, success, message,      *)
(* metadata, error].                                                       *)
(***************************************************************************)
\* the members of the enum PolicyAction and their values
PolicyAction ==
    [ALLOW |-> "allow", DENY |-> "deny", FLAG |-> "flag",
     ANONYMIZE |-> "anonymize", ESCALATE |-> "escalate", REQUIRE |-> "require",
     ENCRYPT |-> "encrypt", LOG |-> "log", NOTIFY |-> "notify",
     VALIDATE |-> "validate", RESTRICT |-> "restrict", DELETE |-> "delete"]

\* the members of the enum EnforcementMode and their values
EnforcementMode ==
    [REAL_TIME |-> "real_time", PRE_PROCESSING |-> "pre_processing",
     POST_PROCESSING |-> "post_processing", SCHEDULED |-> "scheduled",
     PRE_DECISION |-> "pre_decision"]

\* metadata = {}
NoMetadata ==
    << >>

Done(success, message, metadata) ==
    [raised |-> FALSE, success |-> success, message |-> message,
     metadata |-> metadata, error |-> ""]

Fails(e) ==
    [raised |-> TRUE, success |-> FALSE, message |-> "",
     metadata |-> NoMetadata, error |-> e]

\* the record after the loop of _anonymize_data over it: the four
\* substitutions in every value that is a str
AnonymizeRecord(record) ==
    [i \in 1..Len(record) |->
        IF record[i].v.t = "str"
        THEN Item(record[i].k, PyStr(AnonymizeText(record[i].v.s)))
        ELSE record[i]]

\* _anonymize_data that assigns to the dict it was given (no data.copy())
AnonymizeLocals_in_place(data) ==
    [data |-> AnonymizeRecord(data), anonymized_data |-> AnonymizeRecord(data)]

\* the dicts of _anonymize_data when it returns: data, the dict of the caller,
\* and anonymized_data = data.copy(), which the loop assigns to
AnonymizeLocals(data) ==
    [data |-> data, anonymized_data |-> AnonymizeRecord(data)]

_anonymize_data(data, conditions) ==
    Done(TRUE, "Data anonymized successfully",
         [original_keys |-> [i \in 1..Len(data) |-> data[i].k],
          anonymized |-> TRUE])

_encrypt_data(data, conditions) ==
    LET encryption_standard == CondGet(conditions, "encryption_standard", "AES_256")
    IN  Done(TRUE, "Data encrypted using " \o encryption_standard,
             [encrypted |-> TRUE, algorithm |-> encryption_standard])

_flag_data(data, conditions) ==
    Done(TRUE, "Data flagged for manual review",
         [flagged |-> TRUE, review_required |-> TRUE])

_escalate_decision(data, conditions) ==
    Done(TRUE, "Decision escalated to human oversight",
         [escalated |-> TRUE, requires_approval |-> TRUE])

_send_notification(data, conditions) ==
    LET notification_type == CondGet(conditions, "notification_timeframe", "immediate")
    IN  Done(TRUE, "Notification sent (" \o notification_type \o ")",
             [notification_sent |-> TRUE, type |-> notification_type])

_log_activity(data, conditions) ==
    Done(TRUE, "Activity logged for audit",
         [logged |-> TRUE, audit_trail |-> TRUE])

_restrict_access(data, conditions) ==
    Done(TRUE, "Access restricted based on policy",
         [access_restricted |-> TRUE, minimum_necessary |-> TRUE])

\* f"Missing required field: {field}"
MissingMessage(field) ==
    [text |-> "Missing required field: ", field |-> field.s]

\* _validate_data that stops at the first missing field
_validate_data_first_missing_only(data, conditions) ==
    IF "required_fields" \in DOMAIN conditions
    THEN IF conditions.required_fields.t # "list"
         THEN Fails("TypeError: object is not iterable")
         ELSE LET IsMissing(field) == ~HasKey(data, field.s)
                  missing == SelectSeq(conditions.required_fields.l, IsMissing)
                  validation_messages ==
                      IF Len(missing) = 0 THEN << >>
                      ELSE <<MissingMessage(missing[1])>>
                  validation_passed == Len(missing) = 0
              IN  Done(validation_passed, "Data validation completed",
                       [validation_passed |-> validation_passed,
                        messages |-> validation_messages])
    ELSE Done(TRUE, "Data validation completed",
              [validation_passed |-> TRUE, messages |-> << >>])

_validate_data(data, conditions) ==
    IF "required_fields" \in DOMAIN conditions
    THEN IF conditions.required_fields.t # "list"
         THEN Fails("TypeError: object is not iterable")
         ELSE LET IsMissing(field) == ~HasKey(data, field.s)
                  missing == SelectSeq(conditions.required_fields.l, IsMissing)
                  validation_messages ==
                      [i \in 1..Len(missing) |-> MissingMessage(missing[i])]
                  validation_passed == Len(missing) = 0
              IN  Done(validation_passed, "Data validation completed",
                       [validation_passed |-> validation_passed,
                        messages |-> validation_messages])
    ELSE Done(TRUE, "Data validation completed",
              [validation_passed |-> TRUE, messages |-> << >>])

_delete_data(data, conditions) ==
    Done(TRUE, "Data deleted according to retention policy",
         [deleted |-> TRUE, retention_policy_applied |-> TRUE])

_execute_action(action, data, conditions) ==
    CASE action = "ANONYMIZE" -> _anonymize_data(data, conditions)
      [] action = "ENCRYPT" -> _encrypt_data(data, conditions)
      [] action = "FLAG" -> _flag_data(data, conditions)
      [] action = "ESCALATE" -> _escalate_decision(data, conditions)
      [] action = "NOTIFY" -> _send_notification(data, conditions)
      [] action = "LOG" -> _log_activity(data, conditions)
      [] action = "RESTRICT" -> _restrict_access(data, conditions)
      [] action = "VALIDATE" -> _validate_data(data, conditions)
      [] action = "DELETE" -> _delete_data(data, conditions)
      [] action = "DENY" -> Done(TRUE, "Access denied by policy", NoMetadata)
      [] action = "ALLOW" -> Done(TRUE, "Access allowed by policy", NoMetadata)
      [] OTHER -> Done(TRUE, "Action " \o PolicyAction[action] \o " executed",
                       NoMetadata)

\* the dict of the caller after _execute_action: _anonymize_data is the one
\* branch that assigns to a dict, the others read data or ignore it
RecordAfterAction(action, data, conditions) ==
    IF action = "ANONYMIZE" THEN AnonymizeLocals(data).data ELSE data

(***************************************************************************)
(* The rule and policy engine                                              *)
(***************************************************************************)
EnforcementResult(policy_id, rule_id, action_taken, success, message, timestamp, metadata) ==
    [policy_id |-> policy_id, rule_id |-> rule_id, action_taken |-> action_taken,
     success |-> success, message |-> message, timestamp |-> timestamp,
     metadata |-> metadata]

\* RuleOutcome with the rule's action reported also when the conditions are
\* not met
RuleOutcome_declared_action(rule, now, met, action_result) ==
    IF met.raised
    THEN [raised |-> TRUE, error |-> met.error, result |-> << >>]
    ELSE IF met.value
    THEN IF action_result.raised
         THEN [raised |-> TRUE, error |-> action_result.error, result |-> << >>]
         ELSE [raised |-> FALSE, error |-> "",
               result |-> EnforcementResult("", rule.rule_id, rule.action,
                              action_result.success, action_result.message,
                              now, action_result.metadata)]
    ELSE [raised |-> FALSE, error |-> "",
          result |-> EnforcementResult("", rule.rule_id, rule.action, TRUE,
                         "Rule conditions not met, allowing by default",
                         now, NoMetadata)]

\* the EnforcementResult or the exception of _enforce_rule, from what
\* _evaluate_conditions (met) and _execute_action (action_result) return;
\* _execute_action is only called when the conditions are met
RuleOutcome(rule, now, met, action_result) ==
    IF met.raised
    THEN [raised |-> TRUE, error |-> met.error, result |-> << >>]
    ELSE IF met.value
    THEN IF action_result.raised
         THEN [raised |-> TRUE, error |-> action_result.error, result |-> << >>]
         ELSE [raised |-> FALSE, error |-> "",
               result |-> EnforcementResult("", rule.rule_id, rule.action,
                              action_result.success, action_result.message,
                              now, action_result.metadata)]
    ELSE [raised |-> FALSE, error |-> "",
          result |-> EnforcementResult("", rule.rule_id, "ALLOW", TRUE,
                         "Rule conditions not met, allowing by default",
                         now, NoMetadata)]

\* _enforce_rule returns [raised, error, result]: its EnforcementResult, or the
\* exception that evaluating the conditions or executing the action raised;
\* now is the reading of datetime.utcnow() at its first line
_enforce_rule(rule, data, user_context, now) ==
    RuleOutcome(rule, now,
                _evaluate_conditions(rule.conditions, data, user_context),
                _execute_action(rule.action, data, rule.conditions))

\* the dict of the caller after _enforce_rule: the evaluators only read it,
\* and the action runs when the conditions are met
RecordAfterRule(rule, data, user_context) ==
    LET met == _evaluate_conditions(rule.conditions, data, user_context)
    IN  IF ~met.raised /\ met.value
        THEN RecordAfterAction(rule.action, data, rule.conditions)
        ELSE data

\* the file after open(path, 'w') and json.dump(audit_log, f) on the disk:
\* written whole; left as it was when open raises (no directory, no
\* permission); or truncated by open and left without the text, or with a
\* part of it, when the write raises (disk full)
Written(file, audit_log) ==
    CASE disk = "ok" -> [exists |-> TRUE, events |-> audit_log, torn |-> FALSE]
      [] disk = "denied" -> file
      [] disk = "full" -> [exists |-> TRUE, events |-> << >>, torn |-> TRUE]

\* the entry _log_audit_event builds of a result
AuditEvent(policy_id, result) ==
    [timestamp |-> result.timestamp,
     policy_id |-> policy_id,
     rule_id |-> result.rule_id,
     action_taken |-> PolicyAction[result.action_taken],
     success |-> result.success,
     message |-> result.message,
     metadata |-> result.metadata]

\* _log_audit_event with the new entry put in front of the log
_log_audit_event_prepend(file, policy_id, result) ==
    IF file.exists /\ file.torn THEN file
    ELSE Written(file, <<AuditEvent(policy_id, result)>>
                          \o (IF file.exists THEN file.events ELSE << >>))

\* _log_audit_event, run without interruption: the file after the event of
\* result is appended to it.  A file that does not exist reads as the empty
\* log; a file whose text is no JSON document makes json.load raise, and this
\* as every exception of the write is caught and logged, the file left as is
_log_audit_event(file, policy_id, result) ==
    IF file.exists /\ file.torn THEN file
    ELSE Written(file, Append(IF file.exists THEN file.events ELSE << >>,
                              AuditEvent(policy_id, result)))

\* AfterRule with an except branch that only logs the error: the rule that
\* raised gets no result
AfterRule_no_result_on_raise(policy_id, policy, rule, enforced, now, acc) ==
    IF enforced.raised
    THEN [results |-> acc.results, file |-> acc.file, clock |-> now]
    ELSE LET result == [enforced.result EXCEPT !.policy_id = policy_id]
         IN  [results |-> Append(acc.results, result),
              file |-> IF policy.audit_required
                       THEN _log_audit_event(acc.file, policy_id, result)
                       ELSE acc.file,
              clock |-> now]

\* AfterRule with a _log_audit_event that lets the exception of a failed
\* write out: the except branch adds a failed result for the same rule
AfterRule_audit_error_raised(policy_id, policy, rule, enforced, now, acc) ==
    LET result ==
            IF enforced.raised
            THEN EnforcementResult(policy_id, rule.rule_id, "DENY", FALSE,
                     "Rule enforcement failed: " \o enforced.error,
                     now, NoMetadata)
            ELSE [enforced.result EXCEPT !.policy_id = policy_id]
        logs == ~enforced.raised /\ policy.audit_required
        failed == logs /\ (disk # "ok" \/ (acc.file.exists /\ acc.file.torn))
    IN  [results |-> IF failed
                     THEN acc.results \o
                          <<result,
                            EnforcementResult(policy_id, rule.rule_id, "DENY", FALSE,
                                "Rule enforcement failed: OSError", now, NoMetadata)>>
                     ELSE Append(acc.results, result),
         file |-> IF logs
                  THEN _log_audit_event(acc.file, policy_id, result)
                  ELSE acc.file,
         clock |-> now]

\* AfterRule with an except branch that reports the rule that raised as allowed
AfterRule_allow_on_raise(policy_id, policy, rule, enforced, now, acc) ==
    LET result ==
            IF enforced.raised
            THEN EnforcementResult(policy_id, rule.rule_id, "ALLOW", TRUE,
                     "Rule enforcement failed: " \o enforced.error,
                     now, NoMetadata)
            ELSE [enforced.result EXCEPT !.policy_id = policy_id]
    IN  [results |-> Append(acc.results, result),
         file |-> IF ~enforced.raised /\ policy.audit_required
                  THEN _log_audit_event(acc.file, policy_id, result)
                  ELSE acc.file,
         clock |-> now]

\* AfterRule with an except branch that writes its failed result to the audit
\* log as well
AfterRule_raise_audited(policy_id, policy, rule, enforced, now, acc) ==
    LET result ==
            IF enforced.raised
            THEN EnforcementResult(policy_id, rule.rule_id, "DENY", FALSE,
                     "Rule enforcement failed: " \o enforced.error,
                     now, NoMetadata)
            ELSE [enforced.result EXCEPT !.policy_id = policy_id]
    IN  [results |-> Append(acc.results, result),
         file |-> IF policy.audit_required
                  THEN _log_audit_event(acc.file, policy_id, result)
                  ELSE acc.file,
         clock |-> now]

\* one pass of the loop of enforce_policy: the results, the audit file and the
\* clock after the rule whose _enforce_rule call returned or raised `enforced`
AfterRule(policy_id, policy, rule, enforced, now, acc) ==
    LET result ==
            IF enforced.raised
            THEN EnforcementResult(policy_id, rule.rule_id, "DENY", FALSE,
                     "Rule enforcement failed: " \o enforced.error,
                     now, NoMetadata)
            ELSE [enforced.result EXCEPT !.policy_id = policy_id]
    IN  [results |-> Append(acc.results, result),
         file |-> IF ~enforced.raised /\ policy.audit_required
                  THEN _log_audit_event(acc.file, policy_id, result)
                  ELSE acc.file,
         clock |-> now]

RECURSIVE EnforceRules(_, _, _, _, _, _, _)
\* the loop of enforce_policy from the i-th rule on; acc holds the results so
\* far, the audit file and the clock, which ticks[i] advances before rule i
EnforceRules(policy_id, policy, data, user_context, ticks, i, acc) ==
    IF i > Len(policy.rules) THEN acc
    ELSE EnforceRules(policy_id, policy, data, user_context, ticks, i + 1,
             AfterRule(policy_id, policy, policy.rules[i],
                       _enforce_rule(policy.rules[i], data, user_context,
                                     acc.clock + ticks[i]),
                       acc.clock + ticks[i], acc))

\* the record of a call: its operation and arguments, and what it returned
\* or raised
Call(op, policy_id, data, raised, error, results) ==
    [op |-> op, policy_id |-> policy_id, data |-> data,
     raised |-> raised, error |-> error, results |-> results]

RECURSIVE SumTicks(_)
SumTicks(ticks) ==
    IF Len(ticks) = 0 THEN 0 ELSE ticks[1] + SumTicks(Tail(ticks))

\* enforce_policy for a policy of the store: the loop over its rules, each rule
\* reading the clock ticks[i] after the one before it, and the return
EnforceKnown(policy_id, data, user_context, ticks) ==
    /\ Len(ticks) = Len(policies[policy_id].rules)
    /\ clock + SumTicks(ticks) <= MaxClock
    /\ \E done \in {EnforceRules(policy_id, policies[policy_id], data,
                          user_context, ticks, 1,
                          [results |-> << >>, file |-> audit_file,
                           clock |-> clock])} :
           /\ Len(done.file.events) <= MaxLog
           /\ audit_file' = done.file
           /\ clock' = done.clock
           /\ ret' = Call("enforce_policy", policy_id, data, FALSE, "",
                          done.results)
    /\ UNCHANGED <<policies, probe, disk, threads, sdlc>>

\* enforce_policy without the check of line 169, an unknown policy read with
\* self.policies.get(policy_id) as a policy of no rules: it returns no results
enforce_policy_unknown_as_empty(policy_id, data, user_context, ticks) ==
    IF policy_id \notin DOMAIN policies
    THEN /\ ret' = Call("enforce_policy", policy_id, data, FALSE, "", << >>)
         /\ UNCHANGED <<policies, audit_file, clock, probe, disk, threads, sdlc>>
    ELSE EnforceKnown(policy_id, data, user_context, ticks)

enforce_policy(policy_id, data, user_context, ticks) ==
    IF policy_id \notin DOMAIN policies
    THEN /\ ret' = Call("enforce_policy", policy_id, data, TRUE,
                        "ValueError: Policy " \o policy_id \o " not found", << >>)
         /\ UNCHANGED <<policies, audit_file, clock, probe, disk, threads, sdlc>>
    ELSE EnforceKnown(policy_id, data, user_context, ticks)

\* PolicyAction(tag) and EnforcementMode(tag): the member whose value is tag
HasMember(enum, tag) ==
    \E m \in DOMAIN enum : enum[m] = tag

MemberOf(enum, tag) ==
    CHOOSE m \in DOMAIN enum : enum[m] = tag

\* _parse_policy that leaves out the rules whose tags it does not know
_parse_policy_skip_unknown_tags(policy_data) ==
    LET rules_data == SelectSeq(policy_data.rules,
                          LAMBDA r : /\ HasMember(PolicyAction, r.action)
                                     /\ HasMember(EnforcementMode, r.enforcement))
    IN  [raised |-> FALSE, error |-> "",
         policy |-> [policy_id |-> policy_data.policy_id,
                     name |-> policy_data.name,
                     version |-> policy_data.version,
                     description |-> policy_data.description,
                     rules |-> [i \in 1..Len(rules_data) |->
                                  [rule_id |-> rules_data[i].rule_id,
                                   type |-> rules_data[i].type,
                                   action |-> MemberOf(PolicyAction, rules_data[i].action),
                                   conditions |-> rules_data[i].conditions,
                                   enforcement |->
                                       MemberOf(EnforcementMode,
                                                rules_data[i].enforcement)]],
                     compliance_frameworks |-> policy_data.compliance_frameworks,
                     audit_required |-> policy_data.audit_required,
                     created_by |-> policy_data.created_by,
                     created_date |-> policy_data.created_date]]

\* _parse_policy returns [raised, error, policy]
_parse_policy(policy_data) ==
    LET rules_data == policy_data.rules
        BadRule(i) == \/ ~HasMember(PolicyAction, rules_data[i].action)
                      \/ ~HasMember(EnforcementMode, rules_data[i].enforcement)
        rules == [i \in 1..Len(rules_data) |->
                    [rule_id |-> rules_data[i].rule_id,
                     type |-> rules_data[i].type,
                     action |-> MemberOf(PolicyAction, rules_data[i].action),
                     conditions |-> rules_data[i].conditions,
                     enforcement |->
                         MemberOf(EnforcementMode, rules_data[i].enforcement)]]
    IN  IF \E i \in 1..Len(rules_data) : BadRule(i)
        THEN [raised |-> TRUE, error |-> "ValueError: not a valid tag",
              policy |-> << >>]
        ELSE [raised |-> FALSE, error |-> "",
              policy |-> [policy_id |-> policy_data.policy_id,
                          name |-> policy_data.name,
                          version |-> policy_data.version,
                          description |-> policy_data.description,
                          rules |-> rules,
                          compliance_frameworks |-> policy_data.compliance_frameworks,
                          audit_required |-> policy_data.audit_required,
                          created_by |-> policy_data.created_by,
                          created_date |-> policy_data.created_date]]

\* dict[key] = value
SetItem(dict, key, value) ==
    [k \in DOMAIN dict \cup {key} |-> IF k = key THEN value ELSE dict[k]]

\* datetime.utcnow().strftime('%Y%m%d_%H%M%S'): the reading cut to the second
StrfTime(now) ==
    ToString(now \div TicksPerSecond)

create_policy_from_template(template_name, policy_data) ==
    LET policy_id == template_name \o "_" \o StrfTime(clock)
        merged == SetItem(SetItem(policy_data, "policy_id", policy_id),
                          "created_date", clock)
        parsed == _parse_policy(merged)
    IN  IF parsed.raised
        THEN /\ ret' = Call("create_policy_from_template", policy_id,
                            policy_data, TRUE, parsed.error, << >>)
             /\ UNCHANGED <<policies, audit_file, clock, probe, disk, threads, sdlc>>
        ELSE /\ policies' = SetItem(policies, policy_id, parsed.policy)
             /\ ret' = Call("create_policy_from_template", policy_id,
                            policy_data, FALSE, "", << >>)
             /\ UNCHANGED <<audit_file, clock, probe, disk, threads, sdlc>>

\* json.load(f) of the file: [raised, error, audit_log]
LoadAuditLog(file) ==
    IF ~file.exists
    THEN [raised |-> TRUE, audit_log |-> << >>,
          error |-> "[Errno 2] No such file or directory: 'compliance/audit_log.json'"]
    ELSE IF file.torn
    THEN [raised |-> TRUE, audit_log |-> << >>,
          error |-> "JSONDecodeError: Expecting value"]
    ELSE [raised |-> FALSE, audit_log |-> file.events, error |-> ""]

\* len([e for e in events if e['success']])
CountSuccess(events) ==
    Cardinality({i \in 1..Len(events) : events[i].success})

\* [e for e in audit_log if e['policy_id'] == policy_id]
EventsOfPolicy(audit_log, policy_id) ==
    SelectSeq(audit_log, LAMBDA e : e.policy_id = policy_id)

\* a float that is the quotient of two ints, kept as the fraction
Ratio(num, den) ==
    [num |-> num, den |-> den]

\* the length of the window recent_events, audit_log[-10:]
RecentWindow ==
    10

\* policy_stats of get_compliance_dashboard
PolicyStatistics(audit_log) ==
    [id \in {audit_log[i].policy_id : i \in 1..Len(audit_log)} |->
        LET events == EventsOfPolicy(audit_log, id)
        IN  [total |-> Len(events),
             success |-> CountSuccess(events),
             failed |-> Len(events) - CountSuccess(events)]]

\* action_stats of get_compliance_dashboard
ActionStatistics(audit_log) ==
    [action \in {audit_log[i].action_taken : i \in 1..Len(audit_log)} |->
        Cardinality({i \in 1..Len(audit_log) : audit_log[i].action_taken = action})]

\* the summary of the dashboard with the rate as it is computed
Summary(total_policies, total_events, successful_events, compliance_rate) ==
    [total_policies |-> total_policies,
     total_enforcements |-> total_events,
     successful_enforcements |-> successful_events,
     failed_enforcements |-> total_events - successful_events,
     compliance_rate |-> compliance_rate]

\* the rate as a fraction of 1, not multiplied by 100
ComplianceRate_fraction(successful_events, total_events) ==
    IF total_events > 0 THEN Ratio(successful_events, total_events)
    ELSE Ratio(0, 1)

\* successful_events / total_events * 100 if total_events > 0 else 0
ComplianceRate(successful_events, total_events) ==
    IF total_events > 0 THEN Ratio(successful_events * 100, total_events)
    ELSE Ratio(0, 1)

\* get_compliance_dashboard: the data of the dashboard, or the error value
\* the except branch returns
get_compliance_dashboard(file) ==
    LET loaded == LoadAuditLog(file)
        audit_log == loaded.audit_log
        total_events == Len(audit_log)
        successful_events == CountSuccess(audit_log)
    IN  IF loaded.raised THEN [error |-> loaded.error]
        ELSE [summary |-> Summary(Cardinality(DOMAIN policies), total_events,
                                  successful_events,
                                  ComplianceRate(successful_events, total_events)),
              policy_statistics |-> PolicyStatistics(audit_log),
              action_statistics |-> ActionStatistics(audit_log),
              recent_events |->
                  SubSeq(audit_log,
                         IF Len(audit_log) > RecentWindow
                         THEN Len(audit_log) - RecentWindow + 1 ELSE 1,
                         Len(audit_log))]

\* get_policy_status for a policy of the store: the metrics of the policy, or
\* the error value the except branch returns
PolicyStatus(file, policy_id) ==
    LET loaded == LoadAuditLog(file)
        policy_events == EventsOfPolicy(loaded.audit_log, policy_id)
    IN  IF loaded.raised
        THEN [policy_id |-> policy_id,
              policy_name |-> policies[policy_id].name,
              error |-> loaded.error]
        ELSE [policy_id |-> policy_id,
              policy_name |-> policies[policy_id].name,
              total_enforcements |-> Len(policy_events),
              successful_enforcements |-> CountSuccess(policy_events),
              failed_enforcements |-> Len(policy_events) - CountSuccess(policy_events),
              last_enforcement |->
                  IF Len(policy_events) > 0
                  THEN [t |-> "str", timestamp |-> policy_events[Len(policy_events)].timestamp]
                  ELSE [t |-> "None"],
              compliance_frameworks |-> policies[policy_id].compliance_frameworks]

\* the record of a read: its operation and argument, and what it returned or
\* raised
Read(op, policy_id, raised, error, value) ==
    [op |-> op, policy_id |-> policy_id, raised |-> raised, error |-> error,
     value |-> value]

\* a call of get_compliance_dashboard
call_get_compliance_dashboard ==
    /\ ret' = Read("get_compliance_dashboard", "", FALSE, "",
                   get_compliance_dashboard(audit_file))
    /\ UNCHANGED <<policies, audit_file, disk, threads, clock, probe, sdlc>>

\* get_policy_status that writes an empty log when it finds no file
get_policy_status_creates_log(policy_id) ==
    /\ ret' = IF policy_id \notin DOMAIN policies
              THEN Read("get_policy_status", policy_id, TRUE,
                        "ValueError: Policy " \o policy_id \o " not found", << >>)
              ELSE Read("get_policy_status", policy_id, FALSE, "",
                        PolicyStatus(audit_file, policy_id))
    /\ audit_file' = IF policy_id \in DOMAIN policies /\ ~audit_file.exists
                     THEN [exists |-> TRUE, events |-> << >>, torn |-> FALSE]
                     ELSE audit_file
    /\ UNCHANGED <<policies, disk, threads, clock, probe, sdlc>>

\* a call of get_policy_status
get_policy_status(policy_id) ==
    /\ ret' = IF policy_id \notin DOMAIN policies
              THEN Read("get_policy_status", policy_id, TRUE,
                        "ValueError: Policy " \o policy_id \o " not found", << >>)
              ELSE Read("get_policy_status", policy_id, FALSE, "",
                        PolicyStatus(audit_file, policy_id))
    /\ UNCHANGED <<policies, audit_file, disk, threads, clock, probe, sdlc>>

\* compliance_rate and the totals of CognitoFlowDashboard.get_compliance_metrics
\* for the data of the engine's dashboard
get_compliance_metrics(dashboard_data) ==
    LET has == "summary" \in DOMAIN dashboard_data
    IN  [compliance_rate |-> IF has THEN dashboard_data.summary.compliance_rate
                             ELSE Ratio(0, 1),
         total_enforcements |-> IF has THEN dashboard_data.summary.total_enforcements
                                ELSE 0,
         successful_enforcements |->
             IF has THEN dashboard_data.summary.successful_enforcements ELSE 0,
         failed_enforcements |->
             IF has THEN dashboard_data.summary.failed_enforcements ELSE 0]

\* the file system starts or stops to refuse or to fail the writes of the file
DiskChanges(condition) ==
    /\ condition # disk
    /\ disk' = condition
    /\ UNCHANGED <<policies, audit_file, threads, clock, ret, probe, sdlc>>

\* time passes between two calls
Tick ==
    /\ clock < MaxClock
    /\ clock' = clock + 1
    /\ UNCHANGED <<policies, audit_file, ret, probe, disk, threads, sdlc>>

(***************************************************************************)
(* Inputs: policy templates, records, contexts                             *)
(***************************************************************************)
RuleData(rule_id, type, action, conditions, enforcement) ==
    [rule_id |-> rule_id, type |-> type, action |-> action,
     conditions |-> conditions, enforcement |-> enforcement]

PolicyData(policy_id, name, rules, frameworks, audit_required) ==
    [policy_id |-> policy_id, name |-> name, version |-> "1.0",
     description |-> name, rules |-> rules,
     compliance_frameworks |-> frameworks, audit_required |-> audit_required,
     created_by |-> "compliance_team", created_date |-> 0]

\* the files of policies/templates/, as the tests and the demo expect them
TemplateFiles ==
    << PolicyData("data_privacy_001", "Data Privacy",
           << RuleData("pii_detection", "data_classification", "anonymize",
                       [data_types |-> <<"email", "phone">>], "real_time"),
              RuleData("consent_validation", "consent", "require",
                       [consent_required |-> TRUE], "pre_processing") >>,
           {"GDPR", "CCPA"}, TRUE),
       PolicyData("ethical_ai_001", "Ethical AI",
           << RuleData("bias_detection", "fairness", "escalate",
                       [protected_attributes |-> <<K_age>>], "post_processing") >>,
           {"EU_AI_ACT"}, FALSE),
       PolicyData("financial_compliance_001", "Financial Compliance",
           << RuleData("anti_money_laundering", "transaction_monitoring", "flag",
                       [threshold_amounts |-> [wire |-> 10000]], "real_time") >>,
           {"SOX", "AML"}, TRUE),
       PolicyData("hipaa_compliance_001", "HIPAA Compliance",
           << RuleData("phi_detection", "data_classification", "encrypt",
                       [data_types |-> <<"medical_record">>], "real_time") >>,
           {"HIPAA"}, FALSE),
       PolicyData("broken_001", "Broken",
           << RuleData("unknown_action", "access", "block",
                       << >>, "real_time") >>,
           {"NONE"}, TRUE) >>

\* the template names and the policy data create_policy_from_template is given
TemplateNames ==
    {"custom"}

CreateData ==
    { [name |-> "Custom checks", version |-> "1.0", description |-> "checks",
       rules |-> << RuleData("large_transaction", "transaction_monitoring",
                             "flag", [threshold_amounts |-> [cash |-> 10000,
                                                             wire |-> 10000]],
                             "real_time"),
                    RuleData("required_fields", "validation", "validate",
                             [required_fields |-> PyInt(5)], "pre_decision"),
                    RuleData("log_all", "audit", "log", << >>, "scheduled") >>,
       compliance_frameworks |-> {"AML"}, audit_required |-> TRUE,
       created_by |-> "analyst"],
      [name |-> "Custom validation", version |-> "1.0", description |-> "fields",
       rules |-> << RuleData("name_required", "validation", "validate",
                             [required_fields |-> PyList(<<PyStr(K_name)>>)],
                             "pre_decision") >>,
       compliance_frameworks |-> {"GDPR"}, audit_required |-> FALSE,
       created_by |-> "analyst"],
      [name |-> "Custom block", version |-> "1.0", description |-> "block",
       rules |-> << RuleData("log_all", "audit", "log", << >>, "scheduled"),
                    RuleData("block_all", "access", "block", << >>,
                             "real_time") >>,
       compliance_frameworks |-> {"GDPR"}, audit_required |-> TRUE,
       created_by |-> "analyst"],
      [name |-> "Custom mode", version |-> "1.0", description |-> "mode",
       rules |-> << RuleData("log_all", "audit", "log", << >>, "sometimes") >>,
       compliance_frameworks |-> {"GDPR"}, audit_required |-> FALSE,
       created_by |-> "analyst"] }

\* the policy data create_policy_from_template is called with where the
\* audit log is read: a validation that the log records, and a rule that
\* denies followed by a rule whose enforcement raises
AuditedCreateData ==
    { [name |-> "Audited validation", version |-> "1.0", description |-> "fields",
       rules |-> << RuleData("name_required", "validation", "validate",
                             [required_fields |-> PyList(<<PyStr(K_name)>>)],
                             "pre_decision") >>,
       compliance_frameworks |-> {"GDPR"}, audit_required |-> TRUE,
       created_by |-> "analyst"],
      [name |-> "Audited denial", version |-> "1.0", description |-> "deny",
       rules |-> << RuleData("deny_all", "access", "deny", << >>, "real_time"),
                    RuleData("required_fields", "validation", "validate",
                             [required_fields |-> PyInt(5)], "pre_decision") >>,
       compliance_frameworks |-> {"GDPR"}, audit_required |-> TRUE,
       created_by |-> "analyst"] }

\* _load_policies: every template file that parses, under its own policy_id;
\* a file that does not parse is logged and skipped
_load_policies(files) ==
    LET Loads(i) == ~_parse_policy(files[i]).raised
        ids == {files[i].policy_id : i \in {j \in 1..Len(files) : Loads(j)}}
        LastOf(id) == CHOOSE i \in 1..Len(files) :
                          /\ Loads(i) /\ files[i].policy_id = id
                          /\ \A j \in (i + 1)..Len(files) :
                                 ~(Loads(j) /\ files[j].policy_id = id)
    IN  [id \in ids |-> _parse_policy(files[LastOf(id)]).policy]

\* dict(a, **b): the items of a and those of b
Merge(a, b) ==
    [k \in DOMAIN a \cup DOMAIN b |-> IF k \in DOMAIN b THEN b[k] ELSE a[k]]

\* no key, or key with one of the values
MaybeKey(key, values) ==
    {<< >>} \cup {[k \in {key} |-> v] : v \in values}

\* the conditions of the rules _enforce_rule is called with: every choice of
\* the keys the evaluator and the executor read
RuleConditions ==
    {Merge(Merge(Merge(a, b), c), d) :
        a \in MaybeKey("data_types", {<<"email", "phone">>,
                                     <<"ssn", "medical_record">>}),
        b \in MaybeKey("protected_attributes", {<<K_age>>}),
        c \in MaybeKey("consent_required", {TRUE, FALSE}),
        d \in MaybeKey("threshold_amounts", {[wire |-> 10000],
                                            [cash |-> 10000, wire |-> 3000]})}
    \cup {[data_types |-> <<"medical_record">>],
          [required_fields |-> PyList(<<PyStr(K_name)>>)],
          [required_fields |-> PyInt(5)],
          [required_fields |-> PyList(<< >>)],
          [required_fields |-> PyList(<<PyStr(K_age), PyStr(K_name)>>)],
          [required_fields |-> PyList(<<PyStr(K_name), PyStr(K_age), PyStr(K_name)>>)],
          [consent_required |-> TRUE,
           required_fields |-> PyList(<<PyStr(K_name)>>)],
          [data_types |-> <<"credit_card">>],
          [threshold_amounts |-> << >>],
          [protected_attributes |-> <<K_age>>,
           bias_threshold |-> [num |-> 100, den |-> 1]],
          [encryption_standard |-> "AES_128"],
          [notification_timeframe |-> "72_hours"]}

\* the rules _enforce_rule is called with
ProbeRules ==
    {[rule_id |-> "probe", type |-> "probe", action |-> action,
      conditions |-> conditions, enforcement |-> "REAL_TIME"] :
        action \in DOMAIN PolicyAction, conditions \in RuleConditions}

\* the policy ids enforce_policy is called with
PolicyIds ==
    DOMAIN _load_policies(TemplateFiles)
    \cup {n \o "_" \o StrfTime(t) : n \in TemplateNames, t \in 0..MaxClock}
    \cup {"no_such_policy"}

\* user_context: None, or a dict
UserContexts ==
    {"None"}

\* the number of rules of a policy of the store, 0 for an unknown policy_id
RuleCount(policy_id) ==
    IF policy_id \in DOMAIN policies THEN Len(policies[policy_id].rules) ELSE 0

\* the time that passes before each of n rules is enforced
TickChoices(n) ==
    [1..n -> {0, 1}]

(***************************************************************************)
(* The engine                                                              *)
(***************************************************************************)
\* no call was made yet
NoCall ==
    [op |-> "none"]

\* the threads of the process that serve requests
Threads ==
    {"t1", "t2"}

\* a direct call of _enforce_rule, as the tests call the helpers of the engine:
\* what _evaluate_conditions returned in it (met) and what it returned
call_enforce_rule(rule, data, user_context) ==
    /\ probe = NoCall
    /\ probe' = [op |-> "_enforce_rule", rule |-> rule, data |-> data,
                 met |-> _evaluate_conditions(rule.conditions, data, user_context),
                 enforced |-> _enforce_rule(rule, data, user_context, clock),
                 data_after |-> RecordAfterRule(rule, data, user_context)]
    /\ UNCHANGED <<policies, audit_file, clock, ret, disk, threads, sdlc>>

\* a direct call of _anonymize_data: the dicts when it returns, and its result
call_anonymize_data(data) ==
    /\ probe = NoCall
    /\ probe' = [op |-> "_anonymize_data", data |-> data,
                 locals |-> AnonymizeLocals(data),
                 result |-> _anonymize_data(data, << >>)]
    /\ UNCHANGED <<policies, audit_file, clock, ret, disk, threads, sdlc>>

\* _anonymize_data called on the anonymized record of the call before
call_anonymize_data_again ==
    /\ probe # NoCall
    /\ probe.op = "_anonymize_data"
    /\ probe' = [op |-> "_anonymize_data again",
                 data |-> probe.locals.anonymized_data,
                 locals |-> AnonymizeLocals(probe.locals.anonymized_data),
                 result |-> _anonymize_data(probe.locals.anonymized_data, << >>)]
    /\ UNCHANGED <<policies, audit_file, clock, ret, disk, threads, sdlc>>

(***************************************************************************)
(* The AI SDLC pipeline (CognitoFlowAISDLC): four registries keyed by ids  *)
(* made of a prefix and the clock reading cut to the second.  Of each      *)
(* stored object the model keeps the fields the pipeline itself reads      *)
(* again; floats are kept in ten-thousandths (0.85 is 8500).               *)
(***************************************************************************)
\* __init__: the four registries are empty dicts
NoRegistries ==
    [projects |-> << >>, data_profiles |-> << >>,
     experiments |-> << >>, deployments |-> << >>]

\* project_data of define_project_requirements
ProjectData ==
    {[use_case |-> "Test ML Project", compliance_requirements |-> <<"GDPR">>],
     [use_case |-> "Test Deployment",
      compliance_requirements |-> <<"EU_AI_Act", "NIST_AI_RMF">>]}

\* an id no registry holds
UnknownId ==
    "nonexistent"

\* what a call of the pipeline returned (value) or raised (error)
SdlcCall(op, args, raised, error, value) ==
    [op |-> op, args |-> args, raised |-> raised, error |-> error,
     value |-> value]

define_project_requirements(project_data) ==
    LET project_id == "proj_" \o StrfTime(clock)
        requirements ==
            [project_id |-> project_id,
             use_case |-> project_data.use_case,
             compliance_requirements |-> project_data.compliance_requirements]
    IN  /\ sdlc' = [sdlc EXCEPT !.projects = SetItem(@, project_id, requirements)]
        /\ ret' = SdlcCall("define_project_requirements", <<project_data>>,
                           FALSE, "", project_id)
        /\ UNCHANGED <<policies, audit_file, disk, threads, clock, probe>>

prepare_data(project_id, data_config) ==
    LET dataset_id == "data_" \o StrfTime(clock)
        profile == [dataset_id |-> dataset_id, source |-> data_config.source]
    IN  IF project_id \notin DOMAIN sdlc.projects
        THEN /\ ret' = SdlcCall("prepare_data", <<project_id, data_config>>, TRUE,
                                "ValueError: Project " \o project_id \o " not found",
                                "")
             /\ UNCHANGED <<policies, audit_file, disk, threads, clock, probe, sdlc>>
        ELSE /\ sdlc' = [sdlc EXCEPT
                            !.data_profiles = SetItem(@, dataset_id, profile)]
             /\ ret' = SdlcCall("prepare_data", <<project_id, data_config>>,
                                FALSE, "", dataset_id)
             /\ UNCHANGED <<policies, audit_file, disk, threads, clock, probe>>

\* the validation metrics depend on the model type alone
_simulate_validation(model_config) ==
    IF model_config.model_type = "deep_learning"
    THEN [val_loss |-> 1800, val_accuracy |-> 9000, val_f1_score |-> 8700,
          auc_roc |-> 9400]
    ELSE [val_mse |-> 1000, val_r2_score |-> 8200, val_mae |-> 1400,
          cross_val_score |-> 8300]

\* 1.0, times 0.85 for EU_AI_Act, times 0.90 for NIST_AI_RMF, times 0.8 for a
\* validation accuracy under 0.85
_score_model_compliance(project, validation_metrics) ==
    LET fair == IF \E i \in DOMAIN project.compliance_requirements :
                       project.compliance_requirements[i] = "EU_AI_Act"
                THEN (10000 * 85) \div 100 ELSE 10000
        explained == IF \E i \in DOMAIN project.compliance_requirements :
                       project.compliance_requirements[i] = "NIST_AI_RMF"
                     THEN (fair * 90) \div 100 ELSE fair
    IN  IF /\ "val_accuracy" \in DOMAIN validation_metrics
           /\ validation_metrics["val_accuracy"] < 8500
        THEN (explained * 8) \div 10 ELSE explained

_assess_deployment_readiness(experiment) ==
    IF experiment.compliance_score < 8000 THEN FALSE
    ELSE IF /\ "val_accuracy" \in DOMAIN experiment.validation_metrics
            /\ experiment.validation_metrics["val_accuracy"] < 8500 THEN FALSE
    ELSE IF /\ "val_r2_score" \in DOMAIN experiment.validation_metrics
            /\ experiment.validation_metrics["val_r2_score"] < 8000 THEN FALSE
    ELSE TRUE

select_and_train_model(project_id, dataset_id, model_config) ==
    LET experiment_id == "exp_" \o StrfTime(clock)
        args == <<project_id, dataset_id, model_config>>
    IN  IF project_id \notin DOMAIN sdlc.projects
        THEN /\ ret' = SdlcCall("select_and_train_model", args, TRUE,
                                "ValueError: Project " \o project_id \o " not found",
                                "")
             /\ UNCHANGED <<policies, audit_file, disk, threads, clock, probe, sdlc>>
        ELSE IF dataset_id \notin DOMAIN sdlc.data_profiles
        THEN /\ ret' = SdlcCall("select_and_train_model", args, TRUE,
                                "ValueError: Dataset " \o dataset_id \o " not found",
                                "")
             /\ UNCHANGED <<policies, audit_file, disk, threads, clock, probe, sdlc>>
        ELSE LET trained ==
                     [experiment_id |-> experiment_id,
                      model_type |-> model_config.model_type,
                      validation_metrics |-> _simulate_validation(model_config),
                      compliance_score |->
                          _score_model_compliance(
                              sdlc.projects[project_id],
                              _simulate_validation(model_config)),
                      deployment_ready |-> FALSE]
                 experiment ==
                     [trained EXCEPT
                         !.deployment_ready = _assess_deployment_readiness(trained)]
             IN  /\ sdlc' = [sdlc EXCEPT
                                !.experiments = SetItem(@, experiment_id, experiment)]
                 /\ ret' = SdlcCall("select_and_train_model", args, FALSE, "",
                                    experiment_id)
                 /\ UNCHANGED <<policies, audit_file, disk, threads, clock, probe>>

\* the simulated deployment only logs its steps and returns True
_deploy_to_sagemaker(deployment) ==
    TRUE

deploy_model(experiment_id, deployment_config) ==
    LET deployment_id == "deploy_" \o StrfTime(clock)
        args == <<experiment_id, deployment_config>>
        deployment == [model_id |-> experiment_id,
                       endpoint_name |-> deployment_config.endpoint_name]
    IN  IF experiment_id \notin DOMAIN sdlc.experiments
        THEN /\ ret' = SdlcCall("deploy_model", args, TRUE,
                                "ValueError: Experiment " \o experiment_id
                                    \o " not found", "")
             /\ UNCHANGED <<policies, audit_file, disk, threads, clock, probe, sdlc>>
        ELSE IF ~sdlc.experiments[experiment_id].deployment_ready
        THEN /\ ret' = SdlcCall("deploy_model", args, TRUE,
                                "ValueError: Model " \o experiment_id
                                    \o " is not ready for deployment", "")
             /\ UNCHANGED <<policies, audit_file, disk, threads, clock, probe, sdlc>>
        ELSE IF _deploy_to_sagemaker(deployment)
        THEN /\ sdlc' = [sdlc EXCEPT
                            !.deployments = SetItem(@, deployment_id, deployment)]
             /\ ret' = SdlcCall("deploy_model", args, FALSE, "", deployment_id)
             /\ UNCHANGED <<policies, audit_file, disk, threads, clock, probe>>
        ELSE /\ ret' = SdlcCall("deploy_model", args, TRUE,
                                "RuntimeError: Deployment failed for "
                                    \o experiment_id, "")
             /\ UNCHANGED <<policies, audit_file, disk, threads, clock, probe, sdlc>>

\* __init__: the store holds the loaded templates, no audit file is written yet
Init ==
    /\ policies = _load_policies(TemplateFiles)
    /\ audit_file = [exists |-> FALSE, events |-> << >>, torn |-> FALSE]
    /\ disk = "ok"
    /\ threads = [t \in Threads |-> [pc |-> "idle"]]
    /\ clock = 0
    /\ ret = NoCall
    /\ probe = NoCall
    /\ sdlc = NoRegistries

Next ==
    \/ \E policy_id \in PolicyIds, data \in EngineRecords,
          user_context \in UserContexts :
          \E ticks \in TickChoices(RuleCount(policy_id)) :
              enforce_policy(policy_id, data, user_context, ticks)
    \/ \E template_name \in TemplateNames, policy_data \in CreateData :
          create_policy_from_template(template_name, policy_data)
    \/ Tick

Spec ==
    Init /\ [][Next]_vars

\* no reading of the clock advances it
NoTicks(n) ==
    [i \in 1..n |-> 0]

\* the engine with a file system that may refuse or fail the writes of the
\* audit file, and with the reads of the audit log
NextAudit ==
    \/ \E policy_id \in PolicyIds, data \in EngineRecords,
          user_context \in UserContexts :
          enforce_policy(policy_id, data, user_context,
                         NoTicks(RuleCount(policy_id)))
    \/ \E template_name \in TemplateNames, policy_data \in AuditedCreateData :
          create_policy_from_template(template_name, policy_data)
    \/ call_get_compliance_dashboard
    \/ \E policy_id \in PolicyIds : get_policy_status(policy_id)
    \/ \E condition \in {"ok", "denied", "full"} : DiskChanges(condition)

SpecAudit ==
    Init /\ [][NextAudit]_vars

(***************************************************************************)
(* enforce_policy served by several threads of one process: the steps of   *)
(* _log_audit_event between which another thread can run                   *)
(***************************************************************************)
\* a thread that starts enforce_policy(policy_id, data): i is the rule of the
\* loop, audit_log the list _log_audit_event holds, audited the number of
\* _log_audit_event calls made
Serving(policy_id, data) ==
    [pc |-> "rule", policy_id |-> policy_id, data |-> data, i |-> 1,
     results |-> << >>, audit_log |-> << >>, audited |-> 0]

\* the thread after the body of the loop for its rule i: the next rule, or
\* the return
LoopOn(thread) ==
    [thread EXCEPT !.i = @ + 1,
                   !.audit_log = << >>,
                   !.pc = IF thread.i + 1 > Len(policies[thread.policy_id].rules)
                          THEN "done" ELSE "rule"]

\* the file when a thread writes the text of audit_log through the handle it
\* opened with 'w': the text alone when the file is empty since it was
\* truncated; over the text another handle wrote since, the text followed by
\* what is left of the longer other text, which is no JSON document
Overwritten(file, audit_log) ==
    IF file.torn
    THEN {[exists |-> TRUE, events |-> audit_log, torn |-> FALSE]}
    ELSE {[exists |-> TRUE, events |-> audit_log, torn |-> FALSE],
          [exists |-> TRUE, events |-> << >>, torn |-> TRUE]}

\* a request for enforce_policy on a policy with audit_required arrives
conc_call(t, policy_id, data) ==
    /\ threads[t].pc = "idle"
    /\ policy_id \in DOMAIN policies
    /\ policies[policy_id].audit_required
    /\ threads' = [threads EXCEPT ![t] = Serving(policy_id, data)]
    /\ UNCHANGED <<policies, audit_file, disk, clock, ret, probe, sdlc>>

\* lines 176-179 and 185-195: the rule is enforced and its result appended
conc_enforce_rule(t) ==
    /\ threads[t].pc = "rule"
    /\ LET thread == threads[t]
           policy == policies[thread.policy_id]
           rule == policy.rules[thread.i]
           enforced == _enforce_rule(rule, thread.data, "None", clock)
           after == AfterRule(thread.policy_id, policy, rule, enforced, clock,
                              [results |-> thread.results, file |-> audit_file,
                               clock |-> clock])
       IN  threads' = [threads EXCEPT ![t] =
               IF enforced.raised \/ ~policy.audit_required
               THEN LoopOn([thread EXCEPT !.results = after.results])
               ELSE [thread EXCEPT !.results = after.results,
                                   !.audited = @ + 1,
                                   !.pc = "load"]]
    /\ UNCHANGED <<policies, audit_file, disk, clock, ret, probe, sdlc>>

\* lines 522-530: the file is read and the event appended to the list read
conc_load(t) ==
    /\ threads[t].pc = "load"
    /\ LET thread == threads[t]
           audit_event == AuditEvent(thread.policy_id,
                                     thread.results[Len(thread.results)])
           loaded == LoadAuditLog(audit_file)
       IN  threads' = [threads EXCEPT ![t] =
               IF ~audit_file.exists
               THEN [thread EXCEPT !.audit_log = <<audit_event>>,
                                   !.pc = "open_w"]
               ELSE IF loaded.raised
               THEN LoopOn(thread)
               ELSE [thread EXCEPT !.audit_log = Append(loaded.audit_log,
                                                        audit_event),
                                   !.pc = "open_w"]]
    /\ UNCHANGED <<policies, audit_file, disk, clock, ret, probe, sdlc>>

\* line 533: open(self.audit_log_path, 'w') truncates the file
conc_open_w(t) ==
    /\ threads[t].pc = "open_w"
    /\ audit_file' = [exists |-> TRUE, events |-> << >>, torn |-> TRUE]
    /\ threads' = [threads EXCEPT ![t].pc = "dump"]
    /\ UNCHANGED <<policies, disk, clock, ret, probe, sdlc>>

\* line 534 and the end of the with block: the list is written and the file
\* closed
conc_dump(t) ==
    /\ threads[t].pc = "dump"
    /\ audit_file' \in Overwritten(audit_file, threads[t].audit_log)
    /\ threads' = [threads EXCEPT ![t] = LoopOn(threads[t])]
    /\ UNCHANGED <<policies, disk, clock, ret, probe, sdlc>>

\* the policies of the store with audit_required
AuditedPolicyIds ==
    {policy_id \in DOMAIN policies : policies[policy_id].audit_required}

\* requests served concurrently, and the dashboard read while they are
NextConc ==
    \/ \E t \in Threads, policy_id \in AuditedPolicyIds, data \in EngineRecords :
          conc_call(t, policy_id, data)
    \/ \E t \in Threads : conc_enforce_rule(t)
    \/ \E t \in Threads : conc_load(t)
    \/ \E t \in Threads : conc_open_w(t)
    \/ \E t \in Threads : conc_dump(t)
    \/ call_get_compliance_dashboard

SpecConc ==
    Init /\ [][NextConc]_vars

\* one direct call of _enforce_rule on a rule and a record
NextRule ==
    /\ probe = NoCall
    /\ \E rule \in ProbeRules, data \in RuleRecords, user_context \in UserContexts :
           call_enforce_rule(rule, data, user_context)

SpecRule ==
    Init /\ [][NextRule]_vars

\* direct calls of _anonymize_data on a record, and on its anonymized record
NextAnon ==
    \/ /\ probe = NoCall
       /\ \E data \in AnonRecords : call_anonymize_data(data)
    \/ call_anonymize_data_again

SpecAnon ==
    Init /\ [][NextAnon]_vars

\* the pipeline called with ids of the registries and with an id of none
NextSdlc ==
    \/ \E project_data \in ProjectData :
          define_project_requirements(project_data)
    \/ \E project_id \in DOMAIN sdlc.projects \cup {UnknownId},
          data_config \in {[source |-> "Deployment Data"], [source |-> "CRM_Database"]} :
          prepare_data(project_id, data_config)
    \/ \E project_id \in DOMAIN sdlc.projects \cup {UnknownId},
          dataset_id \in DOMAIN sdlc.data_profiles \cup {UnknownId},
          model_config \in {[model_type |-> "regression"], [model_type |-> "deep_learning"]} :
          select_and_train_model(project_id, dataset_id, model_config)
    \/ \E experiment_id \in DOMAIN sdlc.experiments \cup {UnknownId},
          deployment_config \in {[endpoint_name |-> "test-endpoint"]} :
          deploy_model(experiment_id, deployment_config)
    \/ Tick

SpecSdlc ==
    Init /\ [][NextSdlc]_vars

(***************************************************************************)
(* Properties of enforce_policy, checked under Spec                        *)
(***************************************************************************)
\* ret holds an enforce_policy call that returned; the store is the one the
\* call read, since only create_policy_from_template writes it, and that
\* replaces ret
EnforceReturned ==
    ret.op = "enforce_policy" /\ ~ret.raised

\* the step is a call of enforce_policy (a call that changes nothing at all,
\* a second identical call on an unknown policy, is no step)
EnforceStep ==
    /\ ret'.op = "enforce_policy"
    /\ \/ ret.op # "enforce_policy"
       \/ <<ret, audit_file>>' # <<ret, audit_file>>

\* the result is the failed result of the except branch for the exception e
IsFailedResult(result, e) ==
    /\ result.action_taken = "DENY"
    /\ result.success = FALSE
    /\ result.message = "Rule enforcement failed: " \o e

\* C1: enforce_policy on a policy of the store returns (it never raises) one
\* result per rule of the policy, in rule order: the i-th result carries the
\* i-th rule's rule_id and the enforced policy_id, also when rules raise.
C1_OneResultPerRuleInOrder ==
    /\ ret.op = "enforce_policy" =>
           (ret.raised <=> ret.policy_id \notin DOMAIN policies)
    /\ EnforceReturned =>
           /\ Len(ret.results) = Len(policies[ret.policy_id].rules)
           /\ \A i \in 1..Len(ret.results) :
                  /\ ret.results[i].rule_id = policies[ret.policy_id].rules[i].rule_id
                  /\ ret.results[i].policy_id = ret.policy_id

\* a call returned three results, of which the first two are those of rules
\* that raised
C1_Witness ==
    /\ EnforceReturned
    /\ Len(ret.results) = 3
    /\ ret.results[1].action_taken = "DENY" /\ ~ret.results[1].success
    /\ ret.results[2].action_taken = "DENY" /\ ~ret.results[2].success
    /\ ret.results[3].rule_id = "log_all"

RECURSIVE LoggedAll(_, _, _)
\* the audit file after one entry for each of the results, in their order
LoggedAll(file, policy_id, results) ==
    IF Len(results) = 0 THEN file
    ELSE LoggedAll(_log_audit_event(file, policy_id, Head(results)), policy_id,
                   Tail(results))

\* C2: a call of enforce_policy on a policy with audit_required = true appends
\* to the audit log exactly one entry for every result it returns, the failed
\* deny results of rules that raised included, in the order of the results.
C2_OneAuditEntryPerResult ==
    [][(EnforceStep /\ ~ret'.raised /\ policies[ret'.policy_id].audit_required)
          => audit_file' = LoggedAll(audit_file, ret'.policy_id, ret'.results)]_vars

\* the i-th result of the call in ret is what the loop makes of the outcome
\* `enforced` of the i-th rule
ReportsOutcome(i, enforced) ==
    IF enforced.raised
    THEN IsFailedResult(ret.results[i], enforced.error)
    ELSE ret.results[i] = [enforced.result EXCEPT !.policy_id = ret.policy_id]

\* C3: when evaluating or executing a rule raises, enforce_policy still
\* returns: that rule's result is deny, success false, with the error text in
\* its message, and every rule, the later ones included, is reported with its
\* own outcome.
C3_RaisingRuleIsDeniedAndLoopGoesOn ==
    (ret.op = "enforce_policy" /\ ret.policy_id \in DOMAIN policies) =>
        /\ ~ret.raised
        /\ Len(ret.results) = Len(policies[ret.policy_id].rules)
        /\ \A i \in 1..Len(ret.results) :
               ReportsOutcome(i, _enforce_rule(policies[ret.policy_id].rules[i],
                                               ret.data, "None",
                                               ret.results[i].timestamp))

\* the first rule raised while its conditions were evaluated, the second
\* while its action was executed, and the third was still executed
C3_Witness ==
    /\ EnforceReturned
    /\ Len(ret.results) = 3
    /\ _evaluate_conditions(policies[ret.policy_id].rules[1].conditions,
                            ret.data, "None").raised
    /\ IsFailedResult(ret.results[1], "TypeError: '>=' not supported")
    /\ IsFailedResult(ret.results[2], "TypeError: object is not iterable")
    /\ ret.results[3].action_taken = "LOG" /\ ret.results[3].success

\* C4: enforce_policy on a policy_id that is not in the store raises the
\* policy-not-found error, returns no results, reads no timestamp, and leaves
\* the audit log and the policy store unchanged.
C4_UnknownPolicyRaisesAndChangesNothing ==
    [][(ret'.op = "enforce_policy"
        /\ (ret.op # "enforce_policy" \/ ret' # ret)
            /\ ret'.policy_id \notin DOMAIN policies)
          => /\ ret'.raised
             /\ ret'.error = "ValueError: Policy " \o ret'.policy_id \o " not found"
             /\ ret'.results = << >>
             /\ audit_file' = audit_file
             /\ policies' = policies
             /\ clock' = clock]_vars

\* the call on an unknown policy raised when the audit log held entries
C4_Witness ==
    /\ ret.op = "enforce_policy"
    /\ ret.raised
    /\ ret.policy_id \notin DOMAIN policies
    /\ Len(audit_file.events) > 0

\* C6: in every reachable state, no audit log entry carries the policy_id of
\* a policy whose audit_required is false.
C6_NoEntryOfUnauditedPolicy ==
    \A i \in 1..Len(audit_file.events) :
        policies[audit_file.events[i].policy_id].audit_required

(***************************************************************************)
(* Properties of _enforce_rule and the predicates, checked under SpecRule  *)
(***************************************************************************)
\* probe holds a call of _enforce_rule
Probed ==
    probe.op = "_enforce_rule"

\* value is one of the values of the list
InList(value, list) ==
    \E i \in 1..Len(list) : list[i] = value

\* C5: a rule whose conditions evaluate to false gets the result allow with
\* success true, whatever action it declares; a rule whose conditions
\* evaluate to true gets, when its action returns, a result whose
\* action_taken is the declared action.
C5_AllowWhenNotMetElseDeclaredAction ==
    (Probed /\ ~probe.met.raised) =>
        IF probe.met.value
        THEN ~probe.enforced.raised =>
                 probe.enforced.result.action_taken = probe.rule.action
        ELSE /\ ~probe.enforced.raised
             /\ probe.enforced.result.action_taken = "ALLOW"
             /\ probe.enforced.result.success = TRUE

\* a rule that declares deny, whose conditions are not met, was allowed
C5_Witness ==
    /\ Probed
    /\ probe.rule.action = "DENY"
    /\ ~probe.met.raised /\ ~probe.met.value
    /\ probe.enforced.result.action_taken = "ALLOW"

\* the consent predicate decides: a truthy consent_required and no key of
\* higher priority
ConsentDecides(conditions) ==
    /\ "data_types" \notin DOMAIN conditions
    /\ "protected_attributes" \notin DOMAIN conditions
    /\ "consent_required" \in DOMAIN conditions
    /\ conditions.consent_required = TRUE

\* C7: for a rule with a truthy consent_required and no key of higher
\* priority, the condition is true, and the action fires, exactly when the
\* record has no consent_timestamp; with a consent_timestamp the result is the
\* default allow.
C7_ConsentConditionTrueIffTimestampAbsent ==
    (Probed /\ ConsentDecides(probe.rule.conditions)) =>
        /\ ~probe.met.raised
        /\ probe.met.value <=> ~HasKey(probe.data, K_consent_timestamp)
        /\ HasKey(probe.data, K_consent_timestamp) =>
               /\ ~probe.enforced.raised
               /\ probe.enforced.result.action_taken = "ALLOW"

\* C8: when conditions.data_types contains "medical_record", the condition is
\* true exactly when the text of the record contains one of the PHI
\* indicator words.
C8_MedicalRecordDecidedByPhiScan ==
    (Probed /\ "data_types" \in DOMAIN probe.rule.conditions
            /\ InList("medical_record", probe.rule.conditions.data_types)) =>
        /\ ~probe.met.raised
        /\ probe.met.value = _detect_phi(probe.data)

\* the keys _evaluate_conditions dispatches on, in their priority
PriorityKeys ==
    <<"data_types", "protected_attributes", "consent_required",
      "threshold_amounts">>

\* the first of the priority keys present in conditions, "none" without one
SelectedKey(conditions) ==
    IF \E i \in 1..Len(PriorityKeys) : PriorityKeys[i] \in DOMAIN conditions
    THEN PriorityKeys[CHOOSE i \in 1..Len(PriorityKeys) :
                          /\ PriorityKeys[i] \in DOMAIN conditions
                          /\ \A j \in 1..(i - 1) :
                                 PriorityKeys[j] \notin DOMAIN conditions]
    ELSE "none"

\* conditions without the priority keys that come after its first one
WithoutLowerKeys(conditions) ==
    [k \in {x \in DOMAIN conditions :
               InList(x, PriorityKeys) => x = SelectedKey(conditions)}
        |-> conditions[k]]

\* the predicate that belongs to a priority key, on the record
PredicateOf(key, conditions, data) ==
    CASE key = "data_types" ->
             Returns(\E i \in 1..Len(conditions.data_types) :
                         InList(conditions.data_types[i], _detect_pii(data)))
      [] key = "protected_attributes" -> _detect_bias(data, conditions)
      [] key = "consent_required" -> _validate_consent(data, conditions)
      [] key = "threshold_amounts" -> _check_financial_thresholds(data, conditions)
      [] OTHER -> Returns(TRUE)

\* C9: the condition is the predicate of the first key present, in the order
\* data_types, protected_attributes, consent_required, threshold_amounts,
\* applied to the conditions without the keys of lower priority, which so do
\* not influence it; with none of the keys the condition is true.
C9_FirstKeyPresentDecides ==
    Probed =>
        /\ probe.met = PredicateOf(SelectedKey(probe.rule.conditions),
                                   WithoutLowerKeys(probe.rule.conditions),
                                   probe.data)
        /\ SelectedKey(probe.rule.conditions) = "none" =>
               probe.met = Returns(TRUE)

\* the bias predicate decided (false) for a rule whose threshold_amounts are
\* met by the record
C9_Witness ==
    /\ Probed
    /\ "data_types" \notin DOMAIN probe.rule.conditions
    /\ "protected_attributes" \in DOMAIN probe.rule.conditions
    /\ "consent_required" \in DOMAIN probe.rule.conditions
    /\ "threshold_amounts" \in DOMAIN probe.rule.conditions
    /\ ~probe.met.raised /\ ~probe.met.value
    /\ _check_financial_thresholds(probe.data, probe.rule.conditions).value

\* the financial predicate decides: threshold_amounts and no key of higher
\* priority
ThresholdsDecide(conditions) ==
    SelectedKey(conditions) = "threshold_amounts"

\* data[key] is a number >= thresholds[name], for a key of the record and a
\* configured threshold
FieldAtLeast(data, key, thresholds, name) ==
    /\ HasKey(data, key)
    /\ name \in DOMAIN thresholds
    /\ IsNumber(GetKey(data, key))
    /\ GetKey(data, key).n >= thresholds[name]

\* the condition of C10 on the record
MeetsAThreshold(data, thresholds) ==
    \/ FieldAtLeast(data, K_cash_amount, thresholds, "cash")
    \/ FieldAtLeast(data, K_wire_amount, thresholds, "wire")
    \/ \E i \in 1..Len(data) :
           /\ Contains(Lower(data[i].k), W_amount)
           /\ \/ FieldAtLeast(data, data[i].k, thresholds, "cash")
              \/ FieldAtLeast(data, data[i].k, thresholds, "wire")

\* C10: for a rule with threshold_amounts, the condition (when its
\* comparisons do not raise) is true exactly when cash_amount >= cash, or
\* wire_amount >= wire, or a field whose key contains "amount" holds a number
\* >= one of the configured thresholds, equality included; the wire threshold
\* 10000 fires on 15000 and gives the default allow on 500.
C10_ThresholdMetWithEquality ==
    (Probed /\ ThresholdsDecide(probe.rule.conditions)) =>
        /\ ~probe.met.raised =>
               probe.met.value =
                   MeetsAThreshold(probe.data,
                                   probe.rule.conditions.threshold_amounts)
        /\ probe.rule.conditions = [threshold_amounts |-> [wire |-> 10000]] =>
               /\ probe.data = <<Item(K_wire_amount, PyInt(15000))>> =>
                      /\ ~probe.enforced.raised
                      /\ probe.enforced.result.action_taken = probe.rule.action
               /\ probe.data = <<Item(K_wire_amount, PyInt(500))>> =>
                      /\ ~probe.enforced.raised
                      /\ probe.enforced.result.action_taken = "ALLOW"

\* a field that is neither cash_amount nor wire_amount, equal to the wire
\* threshold, met it and the flag action fired
C10_Witness ==
    /\ Probed
    /\ probe.rule.conditions = [threshold_amounts |-> [wire |-> 10000]]
    /\ probe.data = <<Item(K_Total_Amount, PyInt(10000))>>
    /\ probe.rule.action = "FLAG"
    /\ probe.met = Returns(TRUE)
    /\ probe.enforced.result.action_taken = "FLAG"


\* the text that is a pattern of each kind of PII in the records of the model
PiiSample ==
    [email |-> S_email, phone |-> S_phone, ssn |-> S_ssn, credit_card |-> S_card]

\* the kinds of PII the record holds a pattern of
KindsIn(data) ==
    {kind \in DOMAIN PiiSample :
        \E i \in 1..Len(data) : data[i].v = PyStr(PiiSample[kind])}

CreateStep ==
    /\ ret'.op = "create_policy_from_template"
    /\ \/ ret.op # "create_policy_from_template"
       \/ <<ret, policies>>' # <<ret, policies>>

\* C16: every successful create_policy_from_template assigns an id the store
\* did not hold before the call, also for two calls with one template name at
\* one reading of the clock.
C16_CreatedIdIsNew ==
    [][(CreateStep /\ ~ret'.raised) =>
           /\ ret'.policy_id \notin DOMAIN policies
           /\ DOMAIN policies' = DOMAIN policies \cup {ret'.policy_id}]_vars

\* a rule of the policy data has an action or an enforcement mode that is no
\* value of the enums
HasUnknownTag(policy_data) ==
    \E i \in 1..Len(policy_data.rules) :
        \/ \A m \in DOMAIN PolicyAction :
               PolicyAction[m] # policy_data.rules[i].action
        \/ \A m \in DOMAIN EnforcementMode :
               EnforcementMode[m] # policy_data.rules[i].enforcement

\* C17: create_policy_from_template with policy data in which a rule has an
\* unknown action tag or an unknown enforcement-mode tag fails with an error
\* and leaves the policy store (and the audit log) unchanged.
C17_UnknownTagFailsAndStoresNothing ==
    [][(CreateStep /\ HasUnknownTag(ret'.data)) =>
           /\ ret'.raised
           /\ ret'.error # ""
           /\ policies' = policies
           /\ audit_file' = audit_file]_vars

\* a create with an unknown enforcement mode failed when the store held a
\* created policy besides the templates
C17_Witness ==
    /\ ret.op = "create_policy_from_template"
    /\ ret.raised
    /\ ret.data.rules[1].enforcement = "sometimes"
    /\ HasMember(PolicyAction, ret.data.rules[1].action)
    /\ ret.policy_id \in DOMAIN policies
    /\ policies[ret.policy_id].name # ret.data.name

(***************************************************************************)
(* Properties of the audit log and its readers, checked under SpecAudit    *)
(***************************************************************************)
\* the sequence a is the beginning of the sequence b
IsPrefix(a, b) ==
    Len(a) <= Len(b) /\ SubSeq(b, 1, Len(a)) = a

\* C14: the audit log is append-only: in every step of a sequence of
\* enforce_policy, create_policy_from_template, get_policy_status and
\* get_compliance_dashboard calls the log before the step is the beginning of
\* the log after it, and a file that could be read can still be read.
C14_AuditLogIsAppendOnly ==
    [][/\ IsPrefix(audit_file.events, audit_file'.events)
       /\ (audit_file.exists /\ ~audit_file.torn) =>
              (audit_file'.exists /\ ~audit_file'.torn)]_vars

\* C18: when persisting the audit entries fails, enforce_policy returns the
\* results a working audit store gives: one per rule, each what its own
\* rule's outcome makes it, none lost, doubled or replaced by a failed result.
C18_ResultsSurviveAuditFailure ==
    EnforceReturned =>
        /\ Len(ret.results) = Len(policies[ret.policy_id].rules)
        /\ \A i \in 1..Len(ret.results) :
               LET outcome == _enforce_rule(policies[ret.policy_id].rules[i],
                                            ret.data, "None",
                                            ret.results[i].timestamp)
               IN  /\ ret.results[i].rule_id = policies[ret.policy_id].rules[i].rule_id
                   /\ ~outcome.raised =>
                          /\ ret.results[i].action_taken = outcome.result.action_taken
                          /\ ret.results[i].success = outcome.result.success
                          /\ ret.results[i].message = outcome.result.message
                          /\ ret.results[i].metadata = outcome.result.metadata

\* a call on a policy with audit_required returned the results of two rules
\* whose actions fired, and no entry of them could be written
C18_Witness ==
    /\ EnforceReturned
    /\ policies[ret.policy_id].audit_required
    /\ disk = "denied"
    /\ ~audit_file.exists
    /\ Len(ret.results) = 2
    /\ ret.results[1].action_taken = "ANONYMIZE" /\ ret.results[1].success
    /\ ret.results[2].action_taken = "REQUIRE" /\ ret.results[2].success

\* ret holds what get_compliance_dashboard returned
DashboardRead ==
    ret.op = "get_compliance_dashboard"

\* ret holds what get_policy_status returned for a policy of the store
StatusRead ==
    ret.op = "get_policy_status" /\ ~ret.raised

\* C19: reading the audit log when the file does not exist yet behaves as
\* reading an empty log: get_compliance_dashboard returns a summary with
\* total_enforcements = 0 and compliance_rate = 0, get_policy_status returns
\* total_enforcements = 0 and no last enforcement, and neither an error value.
C19_MissingLogReadsAsEmpty ==
    /\ (DashboardRead /\ ~audit_file.exists) =>
           /\ "error" \notin DOMAIN ret.value
           /\ "summary" \in DOMAIN ret.value
           /\ ret.value.summary.total_enforcements = 0
           /\ ret.value.summary.compliance_rate.num = 0
    /\ (StatusRead /\ ~audit_file.exists) =>
           /\ "error" \notin DOMAIN ret.value
           /\ "total_enforcements" \in DOMAIN ret.value
           /\ ret.value.total_enforcements = 0
           /\ ret.value.last_enforcement = [t |-> "None"]

\* the fraction lies in [0, 100]
IsPercentage(rate) ==
    rate.den > 0 /\ 0 <= rate.num /\ rate.num <= 100 * rate.den

\* C20: the compliance_rate the dashboard reports lies in [0, 100], equals
\* successful / total * 100 for the entries of the log, and is 0 when
\* total_enforcements is 0 (also in the metrics CognitoFlowDashboard derives,
\* where the error value of the engine counts as no enforcements).
C20_ComplianceRateIsPercentageOfLog ==
    DashboardRead =>
        /\ "summary" \in DOMAIN ret.value =>
               LET summary == ret.value.summary
                   successful == Cardinality({i \in 1..Len(audit_file.events) :
                                                 audit_file.events[i].success})
               IN  /\ IsPercentage(summary.compliance_rate)
                   /\ summary.total_enforcements = Len(audit_file.events)
                   /\ summary.successful_enforcements = successful
                   /\ summary.compliance_rate.num * summary.total_enforcements
                          = successful * 100 * summary.compliance_rate.den
                   /\ summary.total_enforcements = 0 =>
                          summary.compliance_rate.num = 0
        /\ IsPercentage(get_compliance_metrics(ret.value).compliance_rate)
        /\ get_compliance_metrics(ret.value).total_enforcements = 0 =>
               get_compliance_metrics(ret.value).compliance_rate.num = 0

\* the dashboard reported a rate of 50 for a log of one failed and one
\* successful entry
C20_Witness ==
    /\ DashboardRead
    /\ "summary" \in DOMAIN ret.value
    /\ ret.value.summary.total_enforcements = 2
    /\ ret.value.summary.failed_enforcements = 1
    /\ ret.value.summary.compliance_rate = Ratio(100, 2)


(***************************************************************************)
(* Properties of concurrent calls, checked under SpecConc                  *)
(***************************************************************************)
\* the number of _log_audit_event calls the thread has made
Audited(t) ==
    IF threads[t].pc = "idle" THEN 0 ELSE threads[t].audited

RECURSIVE AuditedBy(_)
\* the number of _log_audit_event calls the threads of the set have made
AuditedBy(ts) ==
    IF ts = {} THEN 0
    ELSE LET t == CHOOSE x \in ts : TRUE
         IN  Audited(t) + AuditedBy(ts \ {t})

\* C12: concurrent enforce_policy calls on policies with audit_required lose
\* no update: when the calls have returned, the log can be read and holds one
\* entry for every _log_audit_event call made, for every interleaving of the
\* read, append and write of the file.
C12_NoLostAuditEntry ==
    (\A t \in Threads : threads[t].pc \in {"idle", "done"}) =>
        /\ ~audit_file.torn
        /\ Len(audit_file.events) = AuditedBy(Threads)

\* the step is a call of get_compliance_dashboard
DashboardStep ==
    /\ ret'.op = "get_compliance_dashboard"
    /\ ret.op # "get_compliance_dashboard" \/ ret' # ret

\* C13: a get_compliance_dashboard call that runs while a thread appends to
\* the log (between its open for writing and the end of its write) sees the
\* log from before the append or from after it: it returns a summary, never
\* an error, and counts all entries of the log before or of the log after.
C13_ReadDuringAppendSeesWholeLog ==
    [][\A t \in Threads :
           (DashboardStep /\ threads[t].pc = "dump") =>
               /\ "error" \notin DOMAIN ret'.value
               /\ "summary" \in DOMAIN ret'.value
               /\ ret'.value.summary.total_enforcements
                      \in {Len(threads[t].audit_log) - 1,
                           Len(threads[t].audit_log)}]_vars

(***************************************************************************)
(* Properties of the readers of the audit log, checked under SpecAudit     *)
(***************************************************************************)
RECURSIVE SumOver(_, _)
\* the sum of f[x] for the x of the set S
SumOver(f, S) ==
    IF S = {} THEN 0
    ELSE LET x == CHOOSE y \in S : TRUE
         IN  f[x] + SumOver(f, S \ {x})

\* the data of the dashboard are the counts of the log and of the store
DashboardCounts(data, log) ==
    /\ "summary" \in DOMAIN data
    /\ data.summary.total_enforcements = Len(log)
    /\ data.summary.successful_enforcements =
           Cardinality({i \in 1..Len(log) : log[i].success})
    /\ data.summary.successful_enforcements + data.summary.failed_enforcements
           = data.summary.total_enforcements
    /\ data.summary.total_policies = Cardinality(DOMAIN policies)
    /\ DOMAIN data.policy_statistics = {log[i].policy_id : i \in 1..Len(log)}
    /\ \A id \in DOMAIN data.policy_statistics :
           /\ data.policy_statistics[id].total =
                  Cardinality({i \in 1..Len(log) : log[i].policy_id = id})
           /\ data.policy_statistics[id].success =
                  Cardinality({i \in 1..Len(log) :
                                  log[i].policy_id = id /\ log[i].success})
           /\ data.policy_statistics[id].success + data.policy_statistics[id].failed
                  = data.policy_statistics[id].total
    /\ SumOver([id \in DOMAIN data.policy_statistics |->
                   data.policy_statistics[id].total],
               DOMAIN data.policy_statistics) = Len(log)
    /\ DOMAIN data.action_statistics = {log[i].action_taken : i \in 1..Len(log)}
    /\ SumOver(data.action_statistics, DOMAIN data.action_statistics) = Len(log)
    /\ Len(data.recent_events) = IF Len(log) < 10 THEN Len(log) ELSE 10
    /\ \A k \in 1..Len(data.recent_events) :
           data.recent_events[k] =
               log[Len(log) - Len(data.recent_events) + k]

\* C21: get_compliance_dashboard is a function of the audit log and the
\* policy store: total_enforcements is the length of the log (0 for a log not
\* written yet), successful + failed = total, the counts of each policy and of
\* each action are those of its entries and sum to the total, total_policies is
\* the size of the store, recent_events the last min(10, length) entries.
C21_DashboardCountsTheLog ==
    (DashboardRead /\ ~audit_file.torn) =>
        DashboardCounts(ret.value, audit_file.events)

\* the step is a call of get_compliance_dashboard or of get_policy_status
ReadStep ==
    /\ ret'.op \in {"get_compliance_dashboard", "get_policy_status"}
    /\ ret.op # ret'.op \/ ret' # ret \/ audit_file' # audit_file

\* C22: get_compliance_dashboard and get_policy_status are read-only: in every
\* state they are called in they leave the audit log (the file as it is,
\* missing, readable or not) and the policy store as they were.
C22_ReadersChangeNothing ==
    [][ReadStep => /\ audit_file' = audit_file
                   /\ policies' = policies]_vars

\* both readers have been called: the status of a policy was read when the log
\* held two entries, and it is still the log of these two entries
C22_Witness ==
    /\ StatusRead
    /\ "total_enforcements" \in DOMAIN ret.value
    /\ ret.value.total_enforcements = 2
    /\ Len(audit_file.events) = 2

\* C23: for a policy of the store get_policy_status reports the number of
\* audit entries with its policy_id, successful and failed counts that
\* partition them and the timestamp of the last of them (none when the log
\* has no entry of it); for a policy_id not in the store it raises the
\* not-found error.
C23_StatusCountsThePolicysEntries ==
    /\ ret.op = "get_policy_status" =>
           /\ ret.raised <=> ret.policy_id \notin DOMAIN policies
           /\ ret.raised =>
                  ret.error = "ValueError: Policy " \o ret.policy_id \o " not found"
    /\ (StatusRead /\ ~audit_file.torn) =>
           LET log == audit_file.events
               own == {i \in 1..Len(log) : log[i].policy_id = ret.policy_id}
           IN  /\ "total_enforcements" \in DOMAIN ret.value
               /\ ret.value.total_enforcements = Cardinality(own)
               /\ ret.value.successful_enforcements =
                      Cardinality({i \in own : log[i].success})
               /\ ret.value.failed_enforcements =
                      Cardinality({i \in own : ~log[i].success})
               /\ ret.value.last_enforcement =
                      IF own = {} THEN [t |-> "None"]
                      ELSE [t |-> "str",
                            timestamp |->
                                log[CHOOSE i \in own : \A j \in own : j <= i].timestamp]

(***************************************************************************)
(* Properties of the actions, checked under SpecRule                       *)
(***************************************************************************)
RECURSIVE MissingFrom(_, _)
\* the entries of the list fields that are no key of the record, in the order
\* of the list
MissingFrom(fields, data) ==
    IF Len(fields) = 0 THEN << >>
    ELSE (IF \E i \in 1..Len(data) : data[i].k = fields[1].s
          THEN << >> ELSE <<fields[1].s>>)
         \o MissingFrom(Tail(fields), data)

\* the rule's conditions were met and its action returned
ActionReturned ==
    /\ Probed
    /\ ~probe.met.raised
    /\ probe.met.value
    /\ ~probe.enforced.raised

C25_RecordOfCallerUnchanged ==
    Probed => probe.data_after = probe.data

\* an anonymize rule fired on the record of the four kinds of PII, which its
\* substitution changes
C25_Witness ==
    /\ ActionReturned
    /\ probe.rule.action = "ANONYMIZE"
    /\ probe.data = PiiTestRecord
    /\ AnonymizeRecord(probe.data) # probe.data
    /\ probe.data_after = PiiTestRecord

(***************************************************************************)
(* Properties of anonymization, checked under SpecAnon                     *)
(***************************************************************************)
\* _anonymize_data was called and returned
Anonymized ==
    probe # NoCall /\ probe.op \in {"_anonymize_data", "_anonymize_data again"}

\* the keys of the record whose value is a str that the substitution changed
TouchedKeys(before, after) ==
    {before[i].k : i \in {j \in 1..Len(before) :
                            before[j].v.t = "str" /\ after[j] # before[j]}}

\* C26: the keys the anonymize action lists in its result metadata are
\* exactly the keys of the record whose str value contained a PII pattern and
\* was replaced by a placeholder; keys whose value was left unchanged are not
\* listed.
C26_MetadataListsTouchedKeys ==
    Anonymized =>
        {probe.result.metadata.original_keys[i] :
             i \in 1..Len(probe.result.metadata.original_keys)}
        = TouchedKeys(probe.data, probe.locals.anonymized_data)

\* C27: anonymization is idempotent on its output: the placeholder
\* substitution applied to an anonymized record yields the same record.
C27_AnonymizeIdempotent ==
    (Anonymized /\ probe.op = "_anonymize_data again") =>
        probe.locals.anonymized_data = probe.data

\* the substitution ran a second time on a record in which the first had put
\* two placeholders side by side
C27_Witness ==
    /\ Anonymized
    /\ probe.op = "_anonymize_data again"
    /\ probe.data = <<Item(K_note, PyStr(<<"[","E","M","A","I","L","]",
                                          "[","S","S","N","]">>))>>
    /\ probe.locals.anonymized_data = probe.data

\* the registry each call of the pipeline stores its record in
RegistryOf(op) ==
    CASE op = "define_project_requirements" -> "projects"
      [] op = "prepare_data" -> "data_profiles"
      [] op = "select_and_train_model" -> "experiments"
      [] op = "deploy_model" -> "deployments"

\* a call of the pipeline returned an id
StoredStep ==
    /\ ret'.op \in {"define_project_requirements", "prepare_data",
                    "select_and_train_model", "deploy_model"}
    /\ ~ret'.raised
    /\ (ret.op # ret'.op \/ ret' # ret \/ sdlc' # sdlc)

\* C28: every successful define_project_requirements, prepare_data,
\* select_and_train_model and deploy_model stores its record under the
\* returned id, which was not in the registry before, keeps every earlier
\* record, and so grows the registry by exactly one, also when calls happen in
\* the same clock second.
C28_EveryCallAddsOneRecord ==
    [][StoredStep =>
          LET before == sdlc[RegistryOf(ret'.op)]
              after == sdlc'[RegistryOf(ret'.op)]
          IN  /\ ret'.value \notin DOMAIN before
              /\ DOMAIN after = DOMAIN before \cup {ret'.value}
              /\ \A id \in DOMAIN before : after[id] = before[id]
              /\ Cardinality(DOMAIN after) = Cardinality(DOMAIN before) + 1]_vars

\* C29: the model_id of every stored deployment names an experiment of the
\* registry whose deployment_ready is true.
C29_DeploymentsNameReadyExperiments ==
    \A deployment_id \in DOMAIN sdlc.deployments :
        /\ sdlc.deployments[deployment_id].model_id \in DOMAIN sdlc.experiments
        /\ sdlc.experiments[sdlc.deployments[deployment_id].model_id].deployment_ready

\* the entries of the audit file
LoggedEvents(file) ==
    {file.events[i] : i \in 1..Len(file.events)}

\* C30: every entry of the audit log with success false has action_taken
\* validate, and an entry with action_taken deny is only ever written for a
\* rule of the enforced policy that declares the action deny: the failed deny
\* result of a rule whose enforcement raised never reaches the log.
C30_FailuresLoggedAreValidations ==
    [][/\ \A event \in LoggedEvents(audit_file') :
              ~event.success => event.action_taken = "validate"
       /\ EnforceStep =>
              \A event \in LoggedEvents(audit_file') \ LoggedEvents(audit_file) :
                  event.action_taken = "deny" =>
                      \E i \in 1..Len(policies[ret'.policy_id].rules) :
                          /\ policies[ret'.policy_id].rules[i].rule_id = event.rule_id
                          /\ policies[ret'.policy_id].rules[i].action = "DENY"]_vars

\* the log holds a failed validation and the entry of a rule that denies, and
\* the call that wrote the latter also returned the failed deny result of a
\* rule that raised, which the log does not hold
C30_Witness ==
    /\ ret.op = "enforce_policy" /\ ~ret.raised
    /\ Len(ret.results) = 2
    /\ ret.results[1].action_taken = "DENY" /\ ret.results[1].success
    /\ ret.results[2].action_taken = "DENY" /\ ~ret.results[2].success
    /\ Len(audit_file.events) = 2
    /\ ~audit_file.events[1].success
    /\ audit_file.events[1].action_taken = "validate"
    /\ audit_file.events[2].success
    /\ audit_file.events[2].action_taken = "deny"
    /\ audit_file.events[2].rule_id = ret.results[1].rule_id

====
